---- MODULE Spec2Model ----
(***************************************************************************)
(* A model of the where-clause compiler of                                 *)
(* packages/core/src/dialects/abstract/query-generator-typescript.ts:      *)
(* AbstractQueryGeneratorTypeScript (escape, formatSequelizeMethod, ...),  *)
(* the PojoWhere object pool and WhereSqlBuilder.                          *)
(*                                                                         *)
(* SQL text is a sequence of lexemes.  A space and each parenthesis is     *)
(* always a lexeme of its own and no other lexeme contains one, so that    *)
(* startsWith('('), endsWith(')'), includes(' ') and the regular           *)
(* expression / AND | OR /i are computed on the text as the code computes  *)
(* them on the string.                                                     *)
(***************************************************************************)
EXTENDS Integers, Sequences, FiniteSets, TLC

VARIABLES
    pool,      \* pojoWherePool: [freeItems, lastOccupiedIndex]
    objects,   \* the PojoWhere objects ever made by the pool's factory, by identity
    call,      \* the last call of the public interface: its arguments
    result,    \* its outcome: [sql, err]
    log,       \* what the last call did, in order (history)
    binds,     \* the values the last call handed to options.bindParam, in order
    ncalls,    \* calls made so far
    frames     \* the frames of a compile in progress that hold a pooled object,
               \* outermost first: [obj, leftOperand, whereValue, read, seen]

vars == <<pool, objects, call, result, log, binds, ncalls, frames>>

-----------------------------------------------------------------------------
(* Bounds of the model.                                                    *)

\* where() sub-expressions nested in one another in one call of a session
MaxNesting == 2
\* calls in one session of the shared pool
MaxCalls == 2
\* depth of the connective trees (Op.and / Op.or / Op.not / lists)
MaxDepth == 2
\* length of the lists of values (IN lists, escapeList)
MaxList == 3
\* string keys descended under one attribute
MaxPath == 2
\* frames holding a pooled object at once in a compile followed step by step
MaxFrames == 22
\* objects the pool's factory makes after the initial ones
MaxCreated == 3

-----------------------------------------------------------------------------
(* JavaScript values.                                                      *)

Undefined == [k |-> "undefined"]
Null == [k |-> "null"]
Bool(b) == [k |-> "boolean", b |-> b]
Num(n) == [k |-> "number", n |-> n]
\* a string: its characters, as lexemes
Str(text) == [k |-> "string", text |-> text]
Arr(items) == [k |-> "array", items |-> items]
\* a plain object: its string keys in insertion order, then its symbol keys
Obj(strs, ops) == [k |-> "object", strs |-> strs, ops |-> ops]
KV(key, val) == [key |-> key, val |-> val]
\* an object that is not plain and is no SequelizeMethod (a Date, a class instance)
Instance == [k |-> "instance"]

\* utils/sequelize-method.js
Literal(parts) == [k |-> "Literal", val |-> parts]
Fn(name, args) == [k |-> "Fn", fn |-> name, args |-> args]
List(values) == [k |-> "List", values |-> values]
Value(v) == [k |-> "Value", value |-> v]
Identifier(name) == [k |-> "Identifier", identifier |-> name]
Cast(v, type) == [k |-> "Cast", cval |-> v, type |-> type]
Col(ids) == [k |-> "Col", identifiers |-> ids]
Attribute(name) == [k |-> "Attribute", attributeName |-> name]
JsonPath(v, path) == [k |-> "JsonPath", value |-> v, path |-> path]
AssociationPath(path, attr) == [k |-> "AssociationPath", associationPath |-> path, attribute |-> attr]
\* where(left, op, right) / where(left, right): a Where holding a PojoWhere
WherePojo(left, v) == [k |-> "Where", pojo |-> TRUE, leftOperand |-> left, whereValue |-> v]
\* where(options): a Where holding WhereOptions
WhereOpts(w) == [k |-> "Where", pojo |-> FALSE, where |-> w]

SequelizeMethodKinds ==
    {"Literal", "Fn", "List", "Value", "Identifier", "Cast", "Col", "Attribute",
     "Where", "JsonPath", "AssociationPath"}

IsSequelizeMethod(v) == v.k \in SequelizeMethodKinds
isPlainObject(v) == v.k = "object"
IsArray(v) == v.k = "array"

\* the symbols of operators.js, by description
OpAnd == "and"
OpOr == "or"
OpNot == "not"
OpEq == "eq"
OpNe == "ne"
OpGt == "gt"
OpIn == "in"
OpNotIn == "notIn"
OpIs == "is"
OpIsNot == "isNot"
OpBetween == "between"
OpNotBetween == "notBetween"
OpLike == "like"
OpNotLike == "notLike"
OpAny == "any"
OpAll == "all"
OpValues == "values"
OpCol == "col"
OpContains == "contains"
OpContained == "contained"
OpStartsWith == "startsWith"
OpNotStartsWith == "notStartsWith"
OpEndsWith == "endsWith"
OpNotEndsWith == "notEndsWith"
OpSubstring == "substring"
OpNotSubstring == "notSubstring"
OpAnyKeyExists == "anyKeyExists"
OpAllKeysExist == "allKeysExist"
\* `operator == null`: no operator given
NoOperator == "undefined"

\* `sym in obj`, obj[sym]
HasOp(obj, sym) == \E i \in 1..Len(obj.ops) : obj.ops[i].key = sym
GetOp(obj, sym) == obj.ops[CHOOSE i \in 1..Len(obj.ops) : obj.ops[i].key = sym].val
GetStr(obj, key) == obj.strs[CHOOSE i \in 1..Len(obj.strs) : obj.strs[i].key = key].val

-----------------------------------------------------------------------------
(* SQL text.                                                               *)

Paren(sql) == <<"(">> \o sql \o <<")">>

RECURSIVE JoinTexts(_, _)
JoinTexts(texts, sep) ==
    IF Len(texts) = 0 THEN <<>>
    ELSE IF Len(texts) = 1 THEN texts[1]
    ELSE texts[1] \o sep \o JoinTexts(Tail(texts), sep)

\* sql.startsWith('(') && sql.endsWith(')')
StartsAndEndsWithParen(sql) == Len(sql) > 0 /\ sql[1] = "(" /\ sql[Len(sql)] = ")"
\* sql.includes(' ')
IncludesSpace(sql) == \E i \in 1..Len(sql) : sql[i] = " "
\* / AND | OR /i.test(sql)
AndOrWords == {"AND", "OR", "and", "or", "And", "Or"}
TestAndOr(sql) ==
    \E i \in 1..(Len(sql) - 2) : sql[i] = " " /\ sql[i + 1] \in AndOrWords /\ sql[i + 2] = " "

joinWithLogicalOperator(sqlArray, operator) ==
    LET operatorSql == IF operator = OpAnd THEN <<" ", "AND", " ">> ELSE <<" ", "OR", " ">>
        kept == SelectSeq(sqlArray, LAMBDA val : val # <<>>)
    IN  IF Len(kept) = 0 THEN <<>>
        ELSE IF Len(kept) = 1 THEN kept[1]
        ELSE JoinTexts([i \in 1..Len(kept) |->
                            IF TestAndOr(kept[i]) THEN Paren(kept[i]) ELSE kept[i]],
                       operatorSql)

wrapWithNot(sql) ==
    IF sql = <<>> THEN <<>>
    ELSE IF StartsAndEndsWithParen(sql) THEN <<"NOT", " ">> \o sql
    ELSE <<"NOT", " ">> \o Paren(sql)

wrapAmbiguousWhere(operand, sql) ==
    IF operand.k = "Where" /\ IncludesSpace(sql) THEN Paren(sql) ELSE sql

-----------------------------------------------------------------------------
(* Data types, model metadata and the dialect: collaborators of the        *)
(* compiler, consumed through the interfaces of spec section 6.            *)

NoType == [t |-> "undefined"]
IntegerType == [t |-> "INTEGER"]
TextType == [t |-> "TEXT"]
BooleanType == [t |-> "BOOLEAN"]
JsonDataType == [t |-> "JSON"]
ArrayType(sub) == [t |-> "ARRAY", of |-> sub.t]
RangeType(sub) == [t |-> "RANGE", of |-> sub.t]
\* a DataType given as a string (a raw SQL type name)
SqlStringType == [t |-> "string"]

\* this.#jsonType
jsonType == JsonDataType

NoModel == "none"

\* model.modelDefinition.attributes.get(name)?.type
AttributeType(model, name) ==
    CASE model = "User" /\ name = "id" -> IntegerType
      [] model = "User" /\ name = "name" -> TextType
      [] model = "User" /\ name = "data" -> JsonDataType
      [] model = "User" /\ name = "tags" -> ArrayType(IntegerType)
      [] model = "Project" /\ name = "id" -> IntegerType
      [] model = "Project" /\ name = "name" -> TextType
      [] OTHER -> NoType

\* model.modelDefinition.getAssociation(path)?.target
AssociationTarget(model, path) ==
    IF model = "User" /\ path = <<"projects">> THEN "Project" ELSE NoModel

\* utils/attribute.js parseAttributeSyntax: $association.attribute$ and json.path
parseAttributeSyntax(attribute) ==
    CASE attribute.attributeName = "$projects.id$" -> AssociationPath(<<"projects">>, "id")
      [] attribute.attributeName = "$tasks.id$" -> AssociationPath(<<"tasks">>, "id")
      [] attribute.attributeName = "data.k" -> JsonPath(Attribute("data"), <<"k">>)
      [] OTHER -> attribute

\* quoteIdentifier(identifier, TICK_CHAR_LEFT, TICK_CHAR_RIGHT)
quoteIdentifier(identifier) == <<"[" \o identifier \o "]">>

RECURSIVE ValueText(_)
\* JSON.stringify / String(value), as lexemes
ValueText(v) ==
    CASE v.k = "number" -> <<ToString(v.n)>>
      [] v.k = "string" -> v.text
      [] v.k = "boolean" -> IF v.b THEN <<"true">> ELSE <<"false">>
      [] v.k = "null" -> <<"null">>
      [] v.k = "array" ->
            <<"[">> \o JoinTexts([i \in 1..Len(v.items) |-> ValueText(v.items[i])], <<",">>) \o <<"]">>
      [] v.k = "object" ->
            <<"{">> \o JoinTexts([i \in 1..Len(v.strs) |->
                            <<v.strs[i].key, ":">> \o ValueText(v.strs[i].val)], <<",">>) \o <<"}">>
      [] OTHER -> <<"[object]">>

\* sql-string.js bestGuessDataTypeOfVal; NoType when it throws
bestGuessDataTypeOfVal(v) ==
    CASE v.k = "number" -> IntegerType
      [] v.k = "string" -> TextType
      [] v.k = "boolean" -> BooleanType
      [] v.k = "object" -> JsonDataType
      [] v.k = "array" /\ Len(v.items) > 0 /\ v.items[1].k \in {"number", "string", "boolean"} ->
            ArrayType(CASE v.items[1].k = "number" -> IntegerType
                    [] v.items[1].k = "string" -> TextType
                    [] OTHER -> BooleanType)
      [] OTHER -> NoType

\* data-types-utils.js validateDataType(value, type): TRUE when it returns no error
validateDataType(v, type) ==
    CASE type.t = "INTEGER" -> v.k = "number"
      [] type.t = "TEXT" -> v.k = "string"
      [] type.t = "BOOLEAN" -> v.k = "boolean"
      [] type.t = "JSON" -> TRUE
      [] type.t = "ARRAY" ->
            /\ v.k = "array"
            /\ \A i \in 1..Len(v.items) :
                  CASE type.of = "INTEGER" -> v.items[i].k = "number"
                    [] type.of = "TEXT" -> v.items[i].k = "string"
                    [] type.of = "BOOLEAN" -> v.items[i].k = "boolean"
                    [] OTHER -> TRUE
      [] OTHER -> TRUE

\* type.escape(value): the inline literal
TypeEscape(type, v) ==
    CASE type.t \in {"TEXT", "JSON"} -> <<"'">> \o ValueText(v) \o <<"'">>
      [] type.t = "ARRAY" /\ v.k = "array" ->
            <<"ARRAY[">> \o JoinTexts([i \in 1..Len(v.items) |-> ValueText(v.items[i])], <<",">>) \o <<"]">>
      [] OTHER -> ValueText(v)

\* attributeTypeToSql(type).toUpperCase()
attributeTypeToSql(type) == type.t

-----------------------------------------------------------------------------
(* The Type Resolver and JSON paths.                                       *)

RECURSIVE getOperandType(_, _)
getOperandType(operand, model) ==
    IF model = NoModel THEN NoType
    ELSE IF operand.k = "Cast" THEN operand.type
    ELSE IF operand.k = "JsonPath" THEN
        LET base == getOperandType(operand.value, model)
        IN  IF base = NoType THEN jsonType ELSE base
    ELSE IF operand.k = "AssociationPath" THEN
        LET target == AssociationTarget(model, operand.associationPath)
        IN  IF target = NoModel THEN NoType
            \* operand.attribute is the attribute's name, a string
            ELSE getOperandType(Str(<<operand.attribute>>), target)
    ELSE IF operand.k = "Attribute" THEN AttributeType(model, operand.attributeName)
    ELSE NoType

\* a variant that wraps a JsonPath in a second JsonPath
wrapJsonPathWithoutMerge(operand, jsonPath) ==
    IF Len(jsonPath) = 0 THEN operand ELSE JsonPath(operand, jsonPath)

wrapJsonPath(operand, jsonPath) ==
    IF Len(jsonPath) = 0 THEN operand
    ELSE IF operand.k = "JsonPath" THEN JsonPath(operand.value, operand.path \o jsonPath)
    ELSE JsonPath(operand, jsonPath)

-----------------------------------------------------------------------------
(* The state one call threads through its frames: the pool, the objects it *)
(* hands out, the history of the call, the values bound so far, and the    *)
(* configuration of the Sequelize instance and its dialect (env).          *)
(* Every operation returns [sql, err, st]: err is <<>> or <<the error>>.   *)

Log(st, event) == [st EXCEPT !.log = Append(@, event)]

Ok(st, sql) == [sql |-> sql, err |-> <<>>, st |-> st]

Error(name, msg) == [name |-> name, msg |-> msg, inspected |-> <<>>, cause |-> <<>>]
\* throw: the error propagates through every frame up to a catch
Throw(st, e) == [sql |-> <<>>, err |-> <<e>>, st |-> Log(st, [ev |-> "throw", name |-> e.name, error |-> e])]

\* Array.prototype.map over the results of its callback, [sqls, err, st]:
\* no element has been mapped yet
NoneYet(st) == [sqls |-> <<>>, err |-> <<>>, st |-> st]
\* ... and the next element's result r follows; a throw ends the map
AndNext(acc, r) == [err |-> r.err, sqls |-> Append(acc.sqls, r.sql), st |-> r.st]

\* `${before}${list.join(', ')}${after}` once the list is mapped
Listed(r, before, after) ==
    IF r.err # <<>> THEN [sql |-> <<>>, err |-> r.err, st |-> r.st]
    ELSE Ok(r.st, before \o JoinTexts(r.sqls, <<",", " ">>) \o after)

\* `${before}${sql}${after}` once sql is there
Wrapped(r, before, after) ==
    IF r.err # <<>> THEN r ELSE Ok(r.st, before \o r.sql \o after)

-----------------------------------------------------------------------------
(* ObjectPool<PojoWhere>.                                                  *)

\* new ObjectPool(() => new PojoWhere(), 20)
InitialPoolSize == 20

\* new PojoWhere(): both fields are declared and not assigned
NewPojoWhere == [leftOperand |-> Undefined, whereValue |-> Undefined]

\* the object at freeItems[index] of the JavaScript array; 0 is undefined
ItemAt(freeItems, index) ==
    IF index >= 0 /\ index < Len(freeItems) THEN freeItems[index + 1] ELSE 0

\* a variant that hands out the last free object and leaves it free
getObjectNotTaken(st) ==
    IF st.lastOccupiedIndex < 0
    THEN [obj |-> Len(st.objects) + 1,
          st |-> [st EXCEPT !.objects = Append(@, NewPojoWhere)]]
    ELSE [obj |-> ItemAt(st.freeItems, st.lastOccupiedIndex), st |-> st]

getObject(st) ==
    IF st.lastOccupiedIndex < 0
    THEN [obj |-> Len(st.objects) + 1,
          st |-> [st EXCEPT !.objects = Append(@, NewPojoWhere)]]
    ELSE [obj |-> ItemAt(st.freeItems, st.lastOccupiedIndex),
          st |-> [st EXCEPT !.lastOccupiedIndex = @ - 1]]

free(st, val) ==
    IF st.lastOccupiedIndex >= Len(st.freeItems) - 1
    THEN [st EXCEPT !.freeItems = Append(@, val)]
    ELSE [st EXCEPT !.lastOccupiedIndex = @ + 1,
                    !.freeItems[st.lastOccupiedIndex + 2] = val]

-----------------------------------------------------------------------------
(* AbstractQueryGeneratorTypeScript.                                       *)

\* options.bindParam(value): the caller's callback collects the value and
\* returns its placeholder
bindParam(st, v) ==
    Ok([st EXCEPT !.binds = Append(@, v)], <<"$" \o ToString(Len(st.binds) + 1)>>)

\* a variant that accepts every value
validateNothing(st, v, type) == <<>>

\* validate(value, type): <<>> or <<the error>>
validate(st, v, type) ==
    IF st.env.noTypeValidation \/ v.k \in {"null", "undefined"} THEN <<>>
    ELSE IF type.t = "string" THEN <<>>
    ELSE IF validateDataType(v, type) THEN <<>>
    ELSE <<Error("ValidationError", "value is not valid for its type")>>

\* utils/sql.js injectReplacements: a positional ? calls onPositionalReplacement,
\* a named :id is replaced by the escaped replacement
injectReplacements(st, sql) ==
    IF \E i \in 1..Len(sql) : sql[i] = "?"
    THEN Throw(st, Error("TypeError", "The following literal includes positional replacements (?)"))
    ELSE Ok(st, [i \in 1..Len(sql) |-> IF sql[i] = ":id" THEN "1" ELSE sql[i]])

\* model.modelDefinition.getColumnNameLoose(attributeName)
getColumnNameLoose(model, name) ==
    IF model = "User" /\ name = "name" THEN "full_name" ELSE name

\* the dialect's jsonPathExtractionQuery2 (the abstract one throws)
RECURSIVE PathText(_)
PathText(path) == IF Len(path) = 0 THEN "" ELSE "." \o path[1] \o PathText(Tail(path))

jsonPathExtractionQuery2(st, v, path) ==
    IF ~st.env.jsonOperations
    THEN Throw(st, Error("Error", "JSON operations are not supported"))
    ELSE Ok(st, <<"json_extract", "(">> \o v \o <<",", "'$" \o PathText(path) \o "'", ")">>)

formatAssociationPath(st, associationPath) ==
    Ok(st, <<quoteIdentifier(associationPath.associationPath[1])[1], ".">>
            \o quoteIdentifier(associationPath.attribute))

\* this.quote(identifiers, model) of the child class
formatCol(st, piece, options) ==
    IF Len(piece.identifiers) = 1 /\ piece.identifiers[1] = "*" THEN Ok(st, <<"*">>)
    ELSE Ok(st, JoinTexts([i \in 1..Len(piece.identifiers) |->
                                quoteIdentifier(piece.identifiers[i])], <<".">>))

\* new Col(value[Op.col] as string)
ColOf(v) == Col(IF v.k = "string" /\ Len(v.text) > 0 THEN <<v.text[1]>> ELSE <<"undefined">>)

RECURSIVE escape(_, _, _)
RECURSIVE formatSequelizeMethod(_, _, _)
RECURSIVE formatLiteral(_, _, _)
RECURSIVE formatFn(_, _, _)
RECURSIVE FormatFnArgs(_, _, _, _)
RECURSIVE formatCast(_, _, _)
RECURSIVE formatAttribute(_, _, _)
RECURSIVE formatJsonPath(_, _, _)
RECURSIVE escapeList(_, _, _)
RECURSIVE EscapeEach(_, _, _, _)
RECURSIVE formatWhereOptions(_, _, _)
RECURSIVE formatPojoWhere(_, _, _)
RECURSIVE TopAttribute(_, _, _)
RECURSIVE HandlePart(_, _, _, _, _, _, _)
RECURSIVE HandleLeaf(_, _, _, _, _, _)
RECURSIVE Handler(_, _, _, _, _, _, _)
RECURSIVE WhereIn(_, _, _, _, _, _, _)
RECURSIVE WhereIs(_, _, _, _, _, _, _)
RECURSIVE WhereBetween(_, _, _, _, _, _, _)
RECURSIVE WhereContains(_, _, _, _, _, _, _)
RECURSIVE WhereContained(_, _, _, _, _, _, _)
RECURSIVE formatSubstring(_, _, _, _, _, _, _, _, _)
RECURSIVE formatBinaryOperation(_, _, _, _, _, _, _)
RECURSIVE formatOpAnyAll(_, _, _)
RECURSIVE formatOpValues(_, _, _)

\* the strings of a literal's parts, joined
RECURSIVE LiteralText(_)
LiteralText(parts) == IF Len(parts) = 0 THEN <<>> ELSE parts[1].text \o LiteralText(Tail(parts))

formatLiteral(st, piece, options) ==
    IF \E i \in 1..Len(piece.val) : IsSequelizeMethod(piece.val[i])
    \* formatSequelizeMethod(piece, options) formats the literal itself again:
    \* the recursion ends when the call stack is exhausted
    THEN Throw(st, Error("RangeError", "Maximum call stack size exceeded"))
    ELSE IF options.replacements THEN injectReplacements(st, LiteralText(piece.val))
    ELSE Ok(st, LiteralText(piece.val))

\* the escaped arguments of a function call, from the i-th on
FormatFnArgs(acc, args, i, options) ==
    IF acc.err # <<>> \/ i > Len(args) THEN acc
    ELSE FormatFnArgs(AndNext(acc, IF IsSequelizeMethod(args[i])
                                   THEN formatSequelizeMethod(acc.st, args[i], options)
                                   ELSE escape(acc.st, args[i], options)),
                      args, i + 1, options)

formatFn(st, piece, options) ==
    Listed(FormatFnArgs(NoneYet(st), piece.args, 1, options), <<piece.fn, "(">>, <<")">>)

formatCast(st, cast, options) ==
    Wrapped(escape(st, cast.cval, options),
            <<"CAST", "(">>, <<" ", "AS", " ", attributeTypeToSql(cast.type), ")">>)

formatAttribute(st, piece, options) ==
    LET parsedAttributeName == parseAttributeSyntax(piece)
    IN  IF parsedAttributeName.k # "Attribute"
        THEN formatSequelizeMethod(st, parsedAttributeName, options)
        ELSE IF options.model = NoModel
        THEN Ok(st, quoteIdentifier(parsedAttributeName.attributeName))
        ELSE Ok(st, quoteIdentifier(getColumnNameLoose(options.model, parsedAttributeName.attributeName)))

\* if (jsonPathVal.path.length === 0) return value; return jsonPathExtractionQuery2(value, path)
ExtractedPath(r, path) ==
    IF r.err # <<>> \/ Len(path) = 0 THEN r ELSE jsonPathExtractionQuery2(r.st, r.sql, path)

formatJsonPath(st, jsonPathVal, options) ==
    ExtractedPath(escape(st, jsonPathVal.value, options), jsonPathVal.path)

formatSequelizeMethod(st, piece, options) ==
    CASE piece.k = "Literal" -> formatLiteral(st, piece, options)
      [] piece.k = "Fn" -> formatFn(st, piece, options)
      [] piece.k = "List" -> escapeList(st, piece.values, options)
      [] piece.k = "Value" -> escape(st, piece.value, options)
      [] piece.k = "Identifier" -> Ok(st, quoteIdentifier(piece.identifier))
      [] piece.k = "Cast" -> formatCast(st, piece, options)
      [] piece.k = "Col" -> formatCol(st, piece, options)
      [] piece.k = "Attribute" -> formatAttribute(st, piece, options)
      [] piece.k = "Where" ->
            IF piece.pojo
            THEN formatPojoWhere(st, [leftOperand |-> piece.leftOperand,
                                      whereValue |-> piece.whereValue, obj |-> 0], options)
            ELSE formatWhereOptions(st, piece.where, options)
      [] piece.k = "JsonPath" -> formatJsonPath(st, piece, options)
      [] piece.k = "AssociationPath" -> formatAssociationPath(st, piece)
      [] OTHER -> Ok(st, <<piece.k, " ", "TODO">>)

escape(st, value0, options) ==
    LET value == IF isPlainObject(value0) /\ HasOp(value0, OpCol)
                 THEN ColOf(GetOp(value0, OpCol)) ELSE value0
    IN  IF IsSequelizeMethod(value) THEN formatSequelizeMethod(st, value, options)
        ELSE IF value.k = "undefined"
        THEN Throw(st, Error("TypeError", "undefined cannot be escaped"))
        ELSE IF value.k = "null"
        THEN IF options.bindParam THEN bindParam(st, value) ELSE Ok(st, <<"NULL">>)
        ELSE LET type == IF options.type = NoType \/ options.type.t = "string"
                         THEN bestGuessDataTypeOfVal(value)
                         ELSE options.type
                 invalid == validate(st, value, type)
             IN  IF type = NoType
                 THEN Throw(st, Error("TypeError", "Could not guess type of value"))
                 ELSE IF invalid # <<>> THEN Throw(st, invalid[1])
                 ELSE IF options.bindParam THEN bindParam(st, value)
                 ELSE Ok(st, TypeEscape(type, value))

\* values.map(value => this.escape(value, options)), from the i-th on
EscapeEach(acc, values, i, options) ==
    IF acc.err # <<>> \/ i > Len(values) THEN acc
    ELSE EscapeEach(AndNext(acc, escape(acc.st, values[i], options)), values, i + 1, options)

\* a variant that joins the escaped elements and leaves the parentheses out
escapeListBare(st, values, options) ==
    Listed(EscapeEach(NoneYet(st), values, 1, options), <<>>, <<>>)

escapeList(st, values, options) ==
    Listed(EscapeEach(NoneYet(st), values, 1, options), <<"(">>, <<")">>)

-----------------------------------------------------------------------------
(* WhereSqlBuilder.                                                        *)

\* this.operatorMap[operator]; <<>> when the operator has no entry
operatorMap(operator) ==
    CASE operator = OpEq -> <<"=">>
      [] operator = OpNe -> <<"!=">>
      [] operator = "gte" -> <<">=">>
      [] operator = OpGt -> <<">">>
      [] operator = "lte" -> <<"<=">>
      [] operator = "lt" -> <<"<">>
      [] operator = OpIs -> <<"IS">>
      [] operator = OpIsNot -> <<"IS", " ", "NOT">>
      [] operator = OpIn -> <<"IN">>
      [] operator = OpNotIn -> <<"NOT", " ", "IN">>
      [] operator = OpLike -> <<"LIKE">>
      [] operator = OpNotLike -> <<"NOT", " ", "LIKE">>
      [] operator = "iLike" -> <<"ILIKE">>
      [] operator = "notILike" -> <<"NOT", " ", "ILIKE">>
      [] operator = "regexp" -> <<"~">>
      [] operator = "notRegexp" -> <<"!~">>
      [] operator = "iRegexp" -> <<"~*">>
      [] operator = "notIRegexp" -> <<"!~*">>
      [] operator = OpBetween -> <<"BETWEEN">>
      [] operator = OpNotBetween -> <<"NOT", " ", "BETWEEN">>
      [] operator = "overlap" -> <<"&&">>
      [] operator = OpContains -> <<"@>">>
      [] operator = OpContained -> <<"<@">>
      [] operator = "adjacent" -> <<"-|-">>
      [] operator = "strictLeft" -> <<"<<">>
      [] operator = "strictRight" -> <<">>">>
      [] operator = "noExtendRight" -> <<"&<">>
      [] operator = "noExtendLeft" -> <<"&>">>
      [] operator = OpAny -> <<"ANY">>
      [] operator = OpAll -> <<"ALL">>
      [] operator = "match" -> <<"@@">>
      [] operator = OpAnyKeyExists -> <<"?|">>
      [] operator = OpAllKeysExist -> <<"?&">>
      [] OTHER -> <<>>

\* `operator in this`: the operators WhereSqlBuilder has a method for
HasHandler(operator) ==
    operator \in {OpNotIn, OpIn, OpIsNot, OpIs, OpNotBetween, OpBetween, OpContains,
                  OpContained, OpStartsWith, OpNotStartsWith, OpEndsWith, OpNotEndsWith,
                  OpSubstring, OpNotSubstring, OpAnyKeyExists, OpAllKeysExist}

\* a ?? b on data types
Coalesce(a, b) == IF a # NoType THEN a ELSE b

\* { ...options, type }
WithType(options, type) == [options EXCEPT !.type = type]
\* { type }
OnlyType(type) == [model |-> NoModel, bindParam |-> FALSE, replacements |-> FALSE, type |-> type]

\* a leaf comparison as it is rendered: the history the claims are stated on
Rendered(st, handler, left, leftSql, operator, right, rightSql, rightOptions, sql) ==
    Ok(Log(st, [ev |-> "render", handler |-> handler, left |-> left, leftSql |-> leftSql,
                operator |-> operator, right |-> right, rightSql |-> rightSql,
                rightOptions |-> rightOptions, sql |-> sql]),
       sql)

RECURSIVE FormatOpValuesEach(_, _, _, _)
\* operand.map(v => `(${this.queryGenerator.escape(v, options)})`), from the i-th on
FormatOpValuesEach(acc, operand, i, options) ==
    IF acc.err # <<>> \/ i > Len(operand) THEN acc
    ELSE FormatOpValuesEach(AndNext(acc, Wrapped(escape(acc.st, operand[i], options), <<"(">>, <<")">>)),
                            operand, i + 1, options)

formatOpValues(st, value, type) ==
    IF isPlainObject(value) /\ HasOp(value, OpValues)
    THEN LET v == GetOp(value, OpValues)
             operand == IF IsArray(v) THEN v.items ELSE <<v>>
         IN  Listed(FormatOpValuesEach(NoneYet(st), operand, 1, OnlyType(type)),
                    <<"VALUES", " ">>, <<>>)
    ELSE escape(st, value, OnlyType(IF type = NoType THEN NoType ELSE ArrayType(type)))

\* a variant that finds no quantifier: the operand is escaped as a value
formatOpAnyAllNever(st, value, type) == Ok(st, <<>>)

formatOpAnyAll(st, value, type) ==
    IF ~isPlainObject(value) THEN Ok(st, <<>>)
    ELSE IF HasOp(value, OpAny) \/ HasOp(value, OpAll)
    THEN Wrapped(formatOpValues(st, GetOp(value, IF HasOp(value, OpAny) THEN OpAny ELSE OpAll), type),
                 <<IF HasOp(value, OpAny) THEN "ANY" ELSE "ALL", " ", "(">>, <<")">>)
    ELSE Ok(st, <<>>)

\* the `|| this.queryGenerator.escape(right, ...)` of rightSql: q is what
\* #formatOpAnyAll returned
OrEscaped(q, right, rightOptions) ==
    IF q.err # <<>> \/ q.sql # <<>> THEN q ELSE escape(q.st, right, rightOptions)

\* the return statement of formatBinaryOperation: l and r are the escaped operands
BinaryOperationSql(l, r, left, operator, right, rightOptions) ==
    IF r.err # <<>> THEN r
    ELSE Rendered(r.st, "formatBinaryOperation", left, l.sql, operator, right, r.sql, rightOptions,
                  wrapAmbiguousWhere(left, l.sql) \o <<" ">> \o operatorMap(operator) \o <<" ">>
                      \o wrapAmbiguousWhere(right, r.sql))

\* const rightSql = ..., once leftSql is there
BinaryOperationRight(l, left, operator, right, rightOptions) ==
    IF l.err # <<>> THEN l
    ELSE BinaryOperationSql(l, OrEscaped(formatOpAnyAll(l.st, right, rightOptions.type),
                                         right, rightOptions),
                            left, operator, right, rightOptions)

\* a variant that does not look the operator up before rendering
formatBinaryOperationUnchecked(st, left, leftDataType, operator, right, rightDataType, options) ==
    BinaryOperationRight(
        escape(st, left, WithType(options, Coalesce(leftDataType, rightDataType))),
        left, operator, right, WithType(options, Coalesce(rightDataType, leftDataType)))

formatBinaryOperation(st, left, leftDataType, operator, right, rightDataType, options) ==
    IF operatorMap(operator) = <<>>
    THEN Throw(st, Error("TypeError", "Operator does not exist or is not supported by this dialect"))
    ELSE BinaryOperationRight(
             escape(st, left, WithType(options, Coalesce(leftDataType, rightDataType))),
             left, operator, right, WithType(options, Coalesce(rightDataType, leftDataType)))

\* the return statement of [Op.in]: r and l are the escaped operands
InSql(r, l, left, operator, right, rightEscapeOptions) ==
    IF l.err # <<>> THEN l
    ELSE Rendered(l.st, "in", left, l.sql, operator, right, r.sql, rightEscapeOptions,
                  l.sql \o <<" ">> \o operatorMap(operator) \o <<" ">> \o r.sql)

\* const leftSql = ..., once rightSql is there
InLeft(r, left, operator, right, leftEscapeOptions, rightEscapeOptions) ==
    IF r.err # <<>> THEN r
    ELSE InSql(r, escape(r.st, left, leftEscapeOptions), left, operator, right, rightEscapeOptions)

\* a variant that omits the constraint for an empty array under Op.in as well
WhereInOmittingEmpty(st, left, leftDataType, operator, right, rightDataType, options) ==
    LET rightEscapeOptions == WithType(options, Coalesce(rightDataType, leftDataType))
        leftEscapeOptions == WithType(options, Coalesce(leftDataType, rightDataType))
    IN  IF IsArray(right) /\ Len(right.items) = 0
        THEN Rendered(st, "in", left, <<>>, operator, right, <<>>, rightEscapeOptions, <<>>)
        ELSE InLeft(IF right.k = "Literal" THEN escape(st, right, rightEscapeOptions)
                    ELSE IF IsArray(right) THEN escapeList(st, right.items, rightEscapeOptions)
                    ELSE Throw(st, Error("TypeError", "Operators Op.in and Op.notIn must be called with an array of values, or a literal")),
                    left, operator, right, leftEscapeOptions, rightEscapeOptions)

\* [Op.in] and [Op.notIn]
WhereIn(st, left, leftDataType, operator, right, rightDataType, options) ==
    LET rightEscapeOptions == WithType(options, Coalesce(rightDataType, leftDataType))
        leftEscapeOptions == WithType(options, Coalesce(leftDataType, rightDataType))
    IN  IF IsArray(right) /\ Len(right.items) = 0 /\ operator = OpNotIn
        THEN Rendered(st, "in", left, <<>>, operator, right, <<>>, rightEscapeOptions, <<>>)
        ELSE InLeft(IF right.k = "Literal" THEN escape(st, right, rightEscapeOptions)
                    ELSE IF IsArray(right)
                    THEN IF Len(right.items) = 0 THEN Ok(st, <<"(", "NULL", ")">>)
                         ELSE escapeList(st, right.items, rightEscapeOptions)
                    ELSE Throw(st, Error("TypeError", "Operators Op.in and Op.notIn must be called with an array of values, or a literal")),
                    left, operator, right, leftEscapeOptions, rightEscapeOptions)

\* a variant that hands every right-hand value on to formatBinaryOperation
WhereIsUnchecked(st, left, leftDataType, operator, right, rightDataType, options) ==
    formatBinaryOperation(st, left, leftDataType, operator, right, rightDataType, options)

\* [Op.is] and [Op.isNot]
WhereIs(st, left, leftDataType, operator, right, rightDataType, options) ==
    IF right.k # "null" /\ right.k # "boolean" /\ right.k # "Literal"
    THEN Throw(st, Error("Error", "Operators Op.is and Op.isNot can only be used with null, true, false or a literal."))
    ELSE formatBinaryOperation(st, left, leftDataType, operator, right, rightDataType, options)

\* [Op.between] and [Op.notBetween]
\* the return statement of [Op.between]: l and r are the escaped operands
BetweenSql(l, r, left, operator, right, rightEscapeOptions) ==
    IF r.err # <<>> THEN r
    ELSE Rendered(r.st, "between", left, l.sql, operator, right, r.sql, rightEscapeOptions,
                  l.sql \o <<" ">> \o operatorMap(operator) \o <<" ">> \o r.sql)

\* `${escape(right[0])} AND ${escape(right[1])}`, once right[0] is escaped
BetweenBounds(r0, right, rightEscapeOptions) ==
    IF r0.err # <<>> THEN r0
    ELSE Wrapped(escape(r0.st, right.items[2], rightEscapeOptions),
                 r0.sql \o <<" ", "AND", " ">>, <<>>)

\* let rightSql ..., once leftSql is there
BetweenRight(l, left, operator, right, rightEscapeOptions) ==
    IF l.err # <<>> THEN l
    ELSE BetweenSql(l,
                    IF IsSequelizeMethod(right) THEN escape(l.st, right, rightEscapeOptions)
                    ELSE IF IsArray(right) /\ Len(right.items) = 2
                    THEN BetweenBounds(escape(l.st, right.items[1], rightEscapeOptions),
                                       right, rightEscapeOptions)
                    ELSE Throw(l.st, Error("Error", "Operators Op.between and Op.notBetween must be used with an array of two values, or a literal.")),
                    left, operator, right, rightEscapeOptions)

WhereBetween(st, left, leftDataType, operator, right, rightDataType, options) ==
    BetweenRight(escape(st, left, WithType(options, Coalesce(leftDataType, rightDataType))),
                 left, operator, right, WithType(options, Coalesce(rightDataType, leftDataType)))

\* [Op.contains]
WhereContains(st, left, leftDataType, operator, right, rightDataType, options) ==
    formatBinaryOperation(st, left, leftDataType, operator, right,
        IF rightDataType = NoType /\ leftDataType.t = "RANGE" /\ ~IsArray(right)
        THEN [t |-> leftDataType.of] ELSE rightDataType,
        options)

\* [Op.contained]
WhereContained(st, left, leftDataType, operator, right, rightDataType, options) ==
    formatBinaryOperation(st, left, leftDataType, operator, right,
        IF leftDataType # NoType /\ leftDataType.t # "RANGE" /\ leftDataType.t # "ARRAY" /\ IsArray(right)
        THEN RangeType(leftDataType) ELSE rightDataType,
        options)

\* this.dialect.escapeString('%')
escapedPercent == Str(<<"'%'">>)

formatSubstring(st, left, leftDataType, operator, right, rightDataType, options, start, end) ==
    formatBinaryOperation(st, left, leftDataType, operator,
        IF right.k = "string"
        THEN Str((IF start THEN <<"%">> ELSE <<>>) \o right.text \o (IF end THEN <<"%">> ELSE <<>>))
        ELSE Literal(<<Str(<<"CONCAT", "(">>)>>
                     \o (IF start THEN <<escapedPercent, Str(<<",", " ">>)>> ELSE <<>>)
                     \o <<Value(right)>>
                     \o (IF end THEN <<Str(<<",", " ">>), escapedPercent>> ELSE <<>>)
                     \o <<Str(<<")">>)>>),
        rightDataType, options)

\* this.#arrayOfTextType
arrayOfTextType == ArrayType(TextType)

\* this[operator](left, leftDataType, operator, right, rightDataType, options)
Handler(st, left, leftDataType, operator, right, rightDataType, options) ==
    CASE operator \in {OpIn, OpNotIn} ->
            WhereIn(st, left, leftDataType, operator, right, rightDataType, options)
      [] operator \in {OpIs, OpIsNot} ->
            WhereIs(st, left, leftDataType, operator, right, rightDataType, options)
      [] operator \in {OpBetween, OpNotBetween} ->
            WhereBetween(st, left, leftDataType, operator, right, rightDataType, options)
      [] operator = OpContains ->
            WhereContains(st, left, leftDataType, operator, right, rightDataType, options)
      [] operator = OpContained ->
            WhereContained(st, left, leftDataType, operator, right, rightDataType, options)
      \* [Op.startsWith] (Op.like, false, true), [Op.notStartsWith] (Op.notLike, false, true),
      \* [Op.endsWith] (Op.like, true, false), [Op.notEndsWith] (Op.notLike, true, false),
      \* [Op.substring] (Op.like, true, true), [Op.notSubstring] (Op.notLike, true, true)
      [] operator \in {OpStartsWith, OpNotStartsWith, OpEndsWith, OpNotEndsWith,
                       OpSubstring, OpNotSubstring} ->
            formatSubstring(st, left, leftDataType,
                IF operator \in {OpNotStartsWith, OpNotEndsWith, OpNotSubstring}
                THEN OpNotLike ELSE OpLike,
                right, rightDataType, options,
                operator \notin {OpStartsWith, OpNotStartsWith},
                operator \notin {OpEndsWith, OpNotEndsWith})
      [] OTHER ->
            formatBinaryOperation(st, left, leftDataType, operator, right, arrayOfTextType, options)

-----------------------------------------------------------------------------
(* The attribute pass: formatPojoWhere and its recursive handler.          *)
(* leftDataType is a variable of formatPojoWhere that its callback         *)
(* assigns: the pass threads it, and returns [sql, err, st, leftDataType]. *)

WithLeftDataType(r, leftDataType) ==
    [sql |-> r.sql, err |-> r.err, st |-> r.st, leftDataType |-> leftDataType]

\* the leftDataType of formatPojoWhere rides along with the results of a map
NoneYetTyped(st, leftDataType) ==
    [sqls |-> <<>>, err |-> <<>>, st |-> st, leftDataType |-> leftDataType]
AndNextTyped(acc, r) ==
    [err |-> r.err, sqls |-> Append(acc.sqls, r.sql), st |-> r.st, leftDataType |-> r.leftDataType]

\* joinWithLogicalOperator(sqlArray, operator) once the array is mapped, recorded
Joined(r, operator, pass) ==
    IF r.err # <<>> THEN [sql |-> <<>>, err |-> r.err, st |-> r.st]
    ELSE Ok(Log(r.st, [ev |-> "join", pass |-> pass, parts |-> r.sqls, operator |-> operator,
                       sql |-> joinWithLogicalOperator(r.sqls, operator)]),
            joinWithLogicalOperator(r.sqls, operator))
JoinedTyped(r, operator) == WithLeftDataType(Joined(r, operator, "attribute"), r.leftDataType)

\* wrapWithNot(generatedResult) once the result is there, recorded
Negated(r, pass) ==
    IF r.err # <<>> THEN r
    ELSE [r EXCEPT !.sql = wrapWithNot(r.sql),
                   !.st = Log(r.st, [ev |-> "not", pass |-> pass, arg |-> r.sql,
                                     sql |-> wrapWithNot(r.sql)])]

\* if (operator == null) { operator = ... }
InferOperator(operator, right, leftDataType) ==
    IF operator # NoOperator THEN operator
    ELSE IF IsArray(right) /\ leftDataType.t # "ARRAY" THEN OpIn
    ELSE IF right.k = "null" THEN OpIs
    ELSE OpEq

\* a variant that leaves = and != alone when the right-hand value is null
KeepOperatorOnNull(operator, right) == operator

\* backwards compatibility: if (right === null) { ... }
RewriteOperatorOnNull(operator, right) ==
    IF right.k # "null" THEN operator
    ELSE IF operator = OpEq THEN OpIs
    ELSE IF operator = OpNe THEN OpIsNot
    ELSE operator

\* the callback (left, operator, right) => ... of formatPojoWhere
HandleLeaf(st, leftDataType0, left, operator0, right0, options) ==
    LET leftDataType == IF leftDataType0 = NoType /\ left.k = "JsonPath"
                        THEN jsonType ELSE leftDataType0
        isCol == operator0 = OpCol
        right1 == IF isCol THEN ColOf(right0) ELSE right0
        operator1 == IF isCol THEN OpEq ELSE operator0
        isAnyAll == operator1 \in {OpAny, OpAll}
        right2 == IF isAnyAll THEN Obj(<<>>, <<KV(operator1, right1)>>) ELSE right1
        operator2 == IF isAnyAll THEN OpEq ELSE operator1
        operator3 == InferOperator(operator2, right2, leftDataType)
        operator4 == RewriteOperatorOnNull(operator3, right2)
        right3 == IF right2.k = "Attribute" THEN parseAttributeSyntax(right2) ELSE right2
        rightDataType == getOperandType(right3, options.model)
        st1 == Log(st, [ev |-> "leaf", left |-> left, given |-> operator0, right |-> right0,
                        leftDataType |-> leftDataType, operator |-> operator4,
                        model |-> options.model])
    IN  WithLeftDataType(
            IF HasHandler(operator4)
            THEN Handler(st1, left, leftDataType, operator4, right3, rightDataType, options)
            ELSE formatBinaryOperation(st1, left, leftDataType, operator4, right3, rightDataType, options),
            leftDataType)

\* handlePart(this.#wrapJsonPath(leftOperand, parentJsonPath), operator, value)
HandlePart(st, leftDataType, leftOperand, parentJsonPath, operator, right, options) ==
    LET left == wrapJsonPath(leftOperand, parentJsonPath)
    IN  HandleLeaf(Log(st, [ev |-> "part", leftOperand |-> leftOperand,
                            parentJsonPath |-> parentJsonPath, left |-> left]),
                   leftDataType, left, operator, right, options)

\* [...stringKeys, ...getOperators(whereValue)] with their values
NestedKeys(whereValue) ==
    [i \in 1..Len(whereValue.strs) |->
        [sym |-> FALSE, key |-> whereValue.strs[i].key, val |-> whereValue.strs[i].val]]
    \o [i \in 1..Len(whereValue.ops) |->
        [sym |-> TRUE, key |-> whereValue.ops[i].key, val |-> whereValue.ops[i].val]]

RECURSIVE handleRecursiveNotOrAndNestedPathRecursive(_, _, _, _, _, _, _, _)
RECURSIVE NestedEachKey(_, _, _, _, _, _, _, _)
RECURSIVE NestedEachElement(_, _, _, _, _, _, _)
RECURSIVE NestedKey(_, _, _, _, _, _, _, _)

\* value.map(v => this.#handleRecursiveNotOrAndNestedPathRecursive(..., v, ..., Op.and, parentJsonPath))
NestedEachElement(acc, leftOperand, items, i, allowJsonPath, options, parentJsonPath) ==
    IF acc.err # <<>> \/ i > Len(items) THEN acc
    ELSE NestedEachElement(
             AndNextTyped(acc, handleRecursiveNotOrAndNestedPathRecursive(
                                   acc.st, acc.leftDataType, leftOperand, items[i], allowJsonPath,
                                   options, OpAnd, parentJsonPath)),
             leftOperand, items, i + 1, allowJsonPath, options, parentJsonPath)

\* a variant whose descent through a string key starts over with AND
NestedKeyDescendingWithAnd(st, leftDataType, leftOperand, entry, allowJsonPath, options, operator, parentJsonPath) ==
    IF ~entry.sym
    THEN handleRecursiveNotOrAndNestedPathRecursive(
             st, leftDataType, leftOperand, entry.val, allowJsonPath, options, OpAnd,
             Append(parentJsonPath, entry.key))
    ELSE IF entry.key = OpNot
    THEN Negated(handleRecursiveNotOrAndNestedPathRecursive(
                     st, leftDataType, leftOperand, entry.val, allowJsonPath, options, OpAnd,
                     parentJsonPath),
                 "attribute")
    ELSE IF entry.key = OpAnd \/ entry.key = OpOr
    THEN IF IsArray(entry.val)
         THEN JoinedTyped(NestedEachElement(NoneYetTyped(st, leftDataType), leftOperand,
                                            entry.val.items, 1, allowJsonPath, options,
                                            parentJsonPath),
                          entry.key)
         ELSE handleRecursiveNotOrAndNestedPathRecursive(
                  st, leftDataType, leftOperand, entry.val, allowJsonPath, options, entry.key, parentJsonPath)
    ELSE HandlePart(st, leftDataType, leftOperand, parentJsonPath, entry.key, entry.val, options)

\* the body of keys.map(key => ...) for one key
NestedKey(st, leftDataType, leftOperand, entry, allowJsonPath, options, operator, parentJsonPath) ==
    IF ~entry.sym
    THEN handleRecursiveNotOrAndNestedPathRecursive(
             st, leftDataType, leftOperand, entry.val, allowJsonPath, options, operator,
             Append(parentJsonPath, entry.key))
    ELSE IF entry.key = OpNot
    THEN Negated(handleRecursiveNotOrAndNestedPathRecursive(
                     st, leftDataType, leftOperand, entry.val, allowJsonPath, options, OpAnd,
                     parentJsonPath),
                 "attribute")
    ELSE IF entry.key = OpAnd \/ entry.key = OpOr
    THEN IF IsArray(entry.val)
         THEN JoinedTyped(NestedEachElement(NoneYetTyped(st, leftDataType), leftOperand,
                                            entry.val.items, 1, allowJsonPath, options,
                                            parentJsonPath),
                          entry.key)
         ELSE handleRecursiveNotOrAndNestedPathRecursive(
                  st, leftDataType, leftOperand, entry.val, allowJsonPath, options, entry.key, parentJsonPath)
    ELSE HandlePart(st, leftDataType, leftOperand, parentJsonPath, entry.key, entry.val, options)

\* keys.map(key => ...), from the i-th key on
NestedEachKey(acc, leftOperand, keys, i, allowJsonPath, options, operator, parentJsonPath) ==
    IF acc.err # <<>> \/ i > Len(keys) THEN acc
    ELSE NestedEachKey(
             AndNextTyped(acc, NestedKey(acc.st, acc.leftDataType, leftOperand, keys[i],
                                         allowJsonPath, options, operator, parentJsonPath)),
             leftOperand, keys, i + 1, allowJsonPath, options, operator, parentJsonPath)

\* a variant that descends the string keys of a mapping whatever the type
handleRecursiveAlwaysDescending(st, leftDataType, leftOperand, whereValue, allowJsonPath, options, operator, parentJsonPath) ==
    IF ~isPlainObject(whereValue)
    THEN HandlePart(st, leftDataType, leftOperand, parentJsonPath, NoOperator, whereValue, options)
    ELSE JoinedTyped(NestedEachKey(NoneYetTyped(st, leftDataType), leftOperand,
                                   NestedKeys(whereValue), 1, allowJsonPath, options, operator,
                                   parentJsonPath),
                     operator)

handleRecursiveNotOrAndNestedPathRecursive(st, leftDataType, leftOperand, whereValue, allowJsonPath, options, operator, parentJsonPath) ==
    IF ~isPlainObject(whereValue)
    THEN HandlePart(st, leftDataType, leftOperand, parentJsonPath, NoOperator, whereValue, options)
    ELSE IF ~allowJsonPath /\ Len(whereValue.strs) > 0
    THEN HandlePart(st, leftDataType, leftOperand, parentJsonPath, NoOperator, whereValue, options)
    ELSE JoinedTyped(NestedEachKey(NoneYetTyped(st, leftDataType), leftOperand,
                                   NestedKeys(whereValue), 1, allowJsonPath, options, operator,
                                   parentJsonPath),
                     operator)

\* formatPojoWhere returns the SQL alone
WithoutLeftDataType(r) == [sql |-> r.sql, err |-> r.err, st |-> r.st]

\* pojoWhere: [leftOperand, whereValue, obj]; obj is the pooled object it is, or 0
formatPojoWhere(st, pojoWhere, options) ==
    LET leftPreJsonPath == IF pojoWhere.leftOperand.k = "Attribute"
                           THEN parseAttributeSyntax(pojoWhere.leftOperand)
                           ELSE pojoWhere.leftOperand
        leftDataType == getOperandType(leftPreJsonPath, options.model)
        operandIsJsonColumn == leftDataType = NoType \/ leftDataType.t = "JSON"
        st1 == IF pojoWhere.obj = 0 THEN st ELSE Log(st, [ev |-> "read", obj |-> pojoWhere.obj])
    IN  WithoutLeftDataType(handleRecursiveNotOrAndNestedPathRecursive(
            st1, leftDataType, leftPreJsonPath, pojoWhere.whereValue, operandIsJsonColumn,
            options, OpAnd, <<>>))

-----------------------------------------------------------------------------
(* The top-level pass and formatWhereOptions.                              *)

\* utils/where.js getComplexKeys: the operators, then the string keys
getComplexKeys(input) ==
    [i \in 1..Len(input.ops) |->
        [sym |-> TRUE, key |-> input.ops[i].key, val |-> input.ops[i].val]]
    \o [i \in 1..Len(input.strs) |->
        [sym |-> FALSE, key |-> input.strs[i].key, val |-> input.strs[i].val]]

\* a variant that fills in a pooled object only the first time it is used
AssignPojoWhereOnce(st, obj, leftOperand, whereValue) ==
    Log([st EXCEPT !.objects[obj] = IF @ = NewPojoWhere
                                    THEN [leftOperand |-> leftOperand, whereValue |-> whereValue]
                                    ELSE @],
        [ev |-> "set", obj |-> obj])

\* pojoWhereObject.leftOperand = ...; pojoWhereObject.whereValue = ...
AssignPojoWhere(st, obj, leftOperand, whereValue) ==
    Log([st EXCEPT !.objects[obj] = [leftOperand |-> leftOperand, whereValue |-> whereValue]],
        [ev |-> "set", obj |-> obj])

RECURSIVE handleRecursiveNotOrAndWithImplicitAndArray(_, _, _, _)
RECURSIVE TopEachElement(_, _, _, _)
RECURSIVE TopEachKey(_, _, _, _)
RECURSIVE TopKey(_, _, _)

\* the handlePart callback of formatWhereOptions, on a SequelizeMethod
\* (on a PojoWhere it is formatPojoWhere)

\* finally { pool.free(pojoWhereObject) }
Finally(r, pojoWhereObject) ==
    [r EXCEPT !.st = Log(free(r.st, pojoWhereObject), [ev |-> "free", obj |-> pojoWhereObject])]

\* the try / finally around one attribute of the mapping
TopAttribute(st, entry, options) ==
    LET got == getObject(st)
        pojoWhereObject == got.obj
        st1 == Log(got.st, [ev |-> "get", obj |-> pojoWhereObject])
        st2 == AssignPojoWhere(st1, pojoWhereObject, Attribute(entry.key), entry.val)
    IN  IF pojoWhereObject = 0
        \* assigning a property of undefined throws; finally frees nothing
        THEN Throw(st1, Error("TypeError", "Cannot set properties of undefined"))
        ELSE Finally(formatPojoWhere(st2, [leftOperand |-> st2.objects[pojoWhereObject].leftOperand,
                                           whereValue |-> st2.objects[pojoWhereObject].whereValue,
                                           obj |-> pojoWhereObject], options),
                     pojoWhereObject)

\* a variant that takes every key that is not Op.and, Op.or or Op.not for an
\* attribute name
TopKeyWithoutSymbolCheck(st, entry, options) ==
    IF entry.sym /\ entry.key = OpNot
    THEN Negated(handleRecursiveNotOrAndWithImplicitAndArray(st, entry.val, options, OpAnd), "top")
    ELSE IF entry.sym /\ (entry.key = OpAnd \/ entry.key = OpOr)
    THEN handleRecursiveNotOrAndWithImplicitAndArray(st, entry.val, options, entry.key)
    ELSE TopAttribute(st, entry, options)

\* the body of keys.map(operatorOrAttribute => ...) for one key
TopKey(st, entry, options) ==
    IF entry.sym /\ entry.key = OpNot
    THEN Negated(handleRecursiveNotOrAndWithImplicitAndArray(st, entry.val, options, OpAnd), "top")
    ELSE IF entry.sym /\ (entry.key = OpAnd \/ entry.key = OpOr)
    THEN handleRecursiveNotOrAndWithImplicitAndArray(st, entry.val, options, entry.key)
    ELSE IF entry.sym
    THEN Throw(st, Error("TypeError", "Invalid Query: includes a Symbol Operator but only attributes, Op.and, Op.or, and Op.not are allowed."))
    ELSE TopAttribute(st, entry, options)

\* keys.map(...), from the i-th key on
TopEachKey(acc, keys, i, options) ==
    IF acc.err # <<>> \/ i > Len(keys) THEN acc
    ELSE TopEachKey(AndNext(acc, TopKey(acc.st, keys[i], options)), keys, i + 1, options)

\* a variant that leaves out the elements whose compilation fails
AndNextUnlessFailed(acc, r) ==
    [sqls |-> IF r.err # <<>> THEN acc.sqls ELSE Append(acc.sqls, r.sql), err |-> <<>>, st |-> r.st]
RECURSIVE TopEachElementSkippingFailures(_, _, _, _)
TopEachElementSkippingFailures(acc, items, i, options) ==
    IF i > Len(items) THEN acc
    ELSE TopEachElementSkippingFailures(
             AndNextUnlessFailed(acc, IF items[i].k = "undefined" THEN Ok(acc.st, <<>>)
                                      ELSE handleRecursiveNotOrAndWithImplicitAndArray(
                                               acc.st, items[i], options, OpAnd)),
             items, i + 1, options)

\* input.map(part => ...), from the i-th element on
TopEachElement(acc, items, i, options) ==
    IF acc.err # <<>> \/ i > Len(items) THEN acc
    ELSE TopEachElement(
             AndNext(acc, IF items[i].k = "undefined" THEN Ok(acc.st, <<>>)
                          ELSE handleRecursiveNotOrAndWithImplicitAndArray(
                                   acc.st, items[i], options, OpAnd)),
             items, i + 1, options)

handleRecursiveNotOrAndWithImplicitAndArray(st, input, options, logicalOperator) ==
    IF IsArray(input)
    THEN Joined(TopEachElement(NoneYet(st), input.items, 1, options), logicalOperator, "top")
    ELSE IF ~isPlainObject(input)
    THEN IF ~IsSequelizeMethod(input)
         THEN Throw(st, Error("TypeError", "Invalid Query: expected a plain object, an array or a sequelize SQL method"))
         ELSE formatSequelizeMethod(st, input, options)
    ELSE Joined(TopEachKey(NoneYet(st), getComplexKeys(input), 1, options), logicalOperator, "top")

\* the TypeError of the catch clause: its message shows the where value, its
\* cause is the error caught
InvalidWhere(where, error) ==
    [name |-> "TypeError", msg |-> "Invalid value received for the where option",
     inspected |-> <<where>>, cause |-> <<error>>]

\* catch (error) { throw new TypeError(..., { cause: error }) }
Catch(r, where) ==
    IF r.err # <<>> THEN Throw(r.st, InvalidWhere(where, r.err[1])) ELSE r

formatWhereOptions(st, where, options) ==
    IF where.k = "string"
    THEN Throw(st, Error("TypeError", "Support for { where: 'raw query' } has been removed"))
    ELSE Catch(handleRecursiveNotOrAndWithImplicitAndArray(st, where, options, OpAnd), where)

-----------------------------------------------------------------------------
(* The program as a state machine: the pool and its objects live as long   *)
(* as the module; each action is one call of the public interface.         *)

InitialPool ==
    [freeItems |-> [i \in 1..InitialPoolSize |-> i], lastOccupiedIndex |-> InitialPoolSize - 1]
InitialObjects == [i \in 1..InitialPoolSize |-> NewPojoWhere]

\* the state a call starts in, given the pool it finds
Entry(p, objs, env) ==
    [freeItems |-> p.freeItems, lastOccupiedIndex |-> p.lastOccupiedIndex, objects |-> objs,
     log |-> <<>>, binds |-> <<>>, env |-> env]

Options(model, bind, replacements) ==
    [model |-> model, bindParam |-> bind, replacements |-> replacements, type |-> NoType]
DefaultOptions == Options(NoModel, FALSE, FALSE)
DefaultEnv == [noTypeValidation |-> FALSE, jsonOperations |-> TRUE]

Init ==
    /\ pool = InitialPool
    /\ objects = InitialObjects
    /\ call = [op |-> "none"]
    /\ result = [sql |-> <<>>, err |-> <<>>]
    /\ log = <<>>
    /\ binds = <<>>
    /\ ncalls = 0
    /\ frames = <<>>

Returned(r) ==
    /\ result' = [sql |-> r.sql, err |-> r.err]
    /\ pool' = [freeItems |-> r.st.freeItems, lastOccupiedIndex |-> r.st.lastOccupiedIndex]
    /\ objects' = r.st.objects
    /\ log' = r.st.log
    /\ binds' = r.st.binds
    /\ ncalls' = ncalls + 1
    /\ frames' = frames

\* what a call finds: the pool and its objects as the calls before it left
\* them, and whether the last of them failed
Found == [pool |-> pool, objects |-> objects, failed |-> result.err # <<>>]

\* whereItemsQuery(where, options)
WhereItemsQuery(where, options, env) ==
    /\ call' = [op |-> "whereItemsQuery", where |-> where, options |-> options, env |-> env,
                found |-> Found]
    /\ Returned(formatWhereOptions(Entry(pool, objects, env), where, options))

\* escape(value, options)
Escape(value, options, env) ==
    /\ call' = [op |-> "escape", value |-> value, options |-> options, env |-> env,
                found |-> Found]
    /\ Returned(escape(Entry(pool, objects, env), value, options))

\* escapeList(values, options)
EscapeList(values, options, env) ==
    /\ call' = [op |-> "escapeList", values |-> values, options |-> options, env |-> env,
                found |-> Found]
    /\ Returned(escapeList(Entry(pool, objects, env), values, options))

-----------------------------------------------------------------------------
(* The inputs of the calls.                                                *)

One(key, val) == Obj(<<KV(key, val)>>, <<>>)
Two(k1, v1, k2, v2) == Obj(<<KV(k1, v1), KV(k2, v2)>>, <<>>)
OpOne(sym, val) == Obj(<<>>, <<KV(sym, val)>>)
OpTwo(s1, v1, s2, v2) == Obj(<<>>, <<KV(s1, v1), KV(s2, v2)>>)

\* [1, ..., n]
NumList(n) == Arr([i \in 1..n |-> Num(i)])
RawLiteral(text) == Literal(<<Str(text)>>)

Scalars == {Null, Undefined, Num(1), Bool(TRUE), Str(<<"x">>), Str(<<"x", " ", "or", " ", "y">>)}
Lists == {NumList(n) : n \in 0..MaxList} \cup {Arr(<<Str(<<"x">>)>>), Arr(<<Num(1), Undefined>>)}

\* where(col, Op.is, null): a boolean sub-expression
IsNullWhere == WherePojo(Attribute("name"), OpOne(OpIs, Null))
\* where(col, Op.notIn, []): a boolean sub-expression that renders nothing
EmptyWhere == WherePojo(Attribute("name"), OpOne(OpNotIn, NumList(0)))

Methods ==
    {RawLiteral(<<"raw">>), RawLiteral(<<"(", "a", " ", "OR", " ", "b", ")">>),
     Literal(<<Str(<<"f", "(">>), Value(Num(1)), Str(<<")">>)>>),
     Literal(<<Str(<<"a", " ", "=", " ">>), Str(<<":id">>)>>), RawLiteral(<<"a", " ", "=", " ", "?">>),
     Fn("lower", <<Col(<<"name">>)>>), Fn("f", <<Num(1), Str(<<"x">>)>>),
     Col(<<"t", "name">>), Col(<<"*">>), Value(Num(1)), Identifier("i"),
     List(<<Num(1), Num(2)>>), Cast(Attribute("id"), TextType), Attribute("name"),
     JsonPath(Attribute("data"), <<"k">>), AssociationPath(<<"projects">>, "id"),
     IsNullWhere, EmptyWhere, WhereOpts(One("x", Num(1)))}

\* the right-hand values an operator is given
Operands == Scalars \cup Lists \cup Methods
    \cup {One("k", Num(1)), OpOne(OpValues, NumList(2)), OpOne(OpCol, Str(<<"name">>))}

Operators ==
    {OpEq, OpNe, OpGt, OpIn, OpNotIn, OpIs, OpIsNot, OpBetween, OpNotBetween, OpLike,
     OpAny, OpAll, OpCol, OpValues, OpContains, OpContained, OpStartsWith, OpNotSubstring,
     OpAnyKeyExists, OpNotStartsWith, OpEndsWith, OpNotEndsWith, OpSubstring}

\* a value under the string keys k1..kn, k1 outermost
PathKeys(n) == [i \in 1..n |-> "k" \o ToString(i)]
RECURSIVE UnderKeys(_, _)
UnderKeys(keys, v) == IF keys = <<>> THEN v ELSE One(Head(keys), UnderKeys(Tail(keys), v))
Under(n, v) == UnderKeys(PathKeys(n), v)

\* the connective trees of the attribute pass, to a depth
AttributeLeaves ==
    {Num(1), OpTwo(OpGt, Num(1), OpNe, Num(2)), OpOne(OpNotIn, NumList(0)),
     OpOne(OpBetween, NumList(2)), Undefined, One("y", Num(1))}
AttributeSiblings == {OpTwo(OpGt, Num(1), OpNe, Num(2)), OpOne(OpNotIn, NumList(0))}

RECURSIVE AttributeTrees(_)
AttributeTrees(d) ==
    IF d = 0 THEN AttributeLeaves
    ELSE LET sub == AttributeTrees(d - 1)
         IN  sub \cup {OpOne(OpNot, t) : t \in sub}
                 \cup {OpOne(c, Arr(<<t, b>>)) : c \in {OpAnd, OpOr}, t \in sub, b \in AttributeSiblings}
                 \cup {OpOne(OpOr, t) : t \in sub}

\* the right-hand values every operator is tried with
CoreOperands ==
    {Null, Undefined, Num(1), Bool(TRUE), Str(<<"x">>), NumList(0), NumList(2),
     RawLiteral(<<"raw">>), IsNullWhere, Fn("lower", <<Col(<<"name">>)>>), Col(<<"t", "name">>),
     One("k", Num(1)), OpOne(OpAny, NumList(2)), OpOne(OpAll, OpOne(OpValues, NumList(2)))}

\* the values written under an attribute name
AttributeValues ==
    Operands
    \cup {OpOne(o, v) : o \in Operators, v \in CoreOperands}
    \cup {OpOne(o, l) : o \in {OpIn, OpNotIn}, l \in Lists}
    \cup {Under(n, v) : n \in 1..MaxPath,
                        v \in {Num(1), Null, NumList(2), OpOne(OpIn, NumList(2)), OpOne(OpNe, Null)}}
    \cup {Obj(<<KV("y", Num(1))>>, <<KV(OpNe, Num(2))>>),
          Two("y", Num(1), "z", NumList(2)),
          OpTwo(OpNe, Null, OpIs, Num(1)),
          OpOne(OpOr, Obj(<<KV("y", OpTwo(OpGt, Num(1), OpNe, Num(2)))>>,
                          <<KV(OpNot, OpTwo(OpGt, Num(1), OpNe, Num(2))),
                            KV(OpAnd, Arr(<<OpTwo(OpGt, Num(1), OpNe, Num(2)), Num(1)>>))>>)),
          Obj(<<KV("y", Num(1))>>, <<KV(OpOr, Arr(<<One("z", Num(1)), OpOne(OpGt, Num(2))>>))>>)}
    \cup AttributeTrees(MaxDepth)

\* attribute names of the model User, and the attribute syntax
ModelAttributes == {"id", "tags", "data"}
SyntaxAttributes == {"data.k", "$projects.id$", "$tasks.id$"}
SyntaxValues ==
    {Num(1), Null, NumList(2), One("y", Num(1)), OpOne(OpIn, NumList(2)), OpOne(OpNot, Num(1))}
    \cup {Under(n, Num(1)) : n \in 1..MaxPath}

\* the connective trees of the top-level pass, to a depth
TopLeaves ==
    {One("x", Num(1)), Two("x", Num(1), "id", Num(2)), One("x", OpOne(OpNotIn, NumList(0))),
     One("x", OpOne(OpBetween, NumList(2))), RawLiteral(<<"(", "a", " ", "OR", " ", "b", ")">>),
     RawLiteral(<<"a", "\n", "OR", "\n", "b">>), IsNullWhere, Str(<<"raw">>), Num(1), Null, Bool(TRUE), Instance, Undefined,
     OpOne(OpEq, Num(1)), Obj(<<KV("x", Num(1))>>, <<KV(OpIn, NumList(1))>>),
     One("x", Undefined), One("x", WhereOpts(Two("id", Num(1), "x", Undefined)))}
TopSiblings == {Two("x", Num(1), "id", Num(2)), One("x", OpOne(OpNotIn, NumList(0)))}

RECURSIVE TopTrees(_)
TopTrees(d) ==
    IF d = 0 THEN TopLeaves
    ELSE LET sub == TopTrees(d - 1)
         IN  sub \cup {OpOne(OpNot, t) : t \in sub}
                 \cup {OpOne(c, Arr(<<t, b>>)) : c \in {OpAnd, OpOr}, t \in sub, b \in TopSiblings}
                 \cup {Arr(<<t, b>>) : t \in sub, b \in TopSiblings}
                 \cup {Obj(<<KV("x", Num(1))>>, <<KV(OpOr, t)>>) : t \in sub}

\* where(left, value) with each kind of left operand
LeftOperands ==
    {Attribute("id"), JsonPath(Attribute("data"), <<"k">>), Cast(Attribute("id"), TextType),
     IsNullWhere, EmptyWhere, Fn("lower", <<Col(<<"name">>)>>), AssociationPath(<<"projects">>, "id"),
     JsonPath(JsonPath(Attribute("data"), <<"k">>), <<"j">>)}
LeftValues ==
    {Num(1), Null, Bool(TRUE), NumList(0), NumList(2), IsNullWhere, One("y", Num(1)),
     OpOne(OpIn, NumList(0)), OpOne(OpIn, NumList(2)), OpOne(OpNotIn, NumList(0)),
     OpOne(OpNotIn, NumList(2)), OpOne(OpBetween, NumList(2)), OpOne(OpIs, Null),
     OpOne(OpEq, IsNullWhere), OpOne(OpGt, IsNullWhere), OpOne(OpAny, NumList(2)),
     OpOne(OpLike, Str(<<"x">>)), OpOne(OpNot, OpOne(OpEq, IsNullWhere))}
WhereCalls == {WherePojo(l, v) : l \in LeftOperands, v \in LeftValues}

Call(where, options, env) == [where |-> where, options |-> options, env |-> env]
NoValidationEnv == [noTypeValidation |-> TRUE, jsonOperations |-> TRUE]
Types == {NoType, IntegerType, TextType, JsonDataType, ArrayType(IntegerType), SqlStringType}

-----------------------------------------------------------------------------
(* One call on the generator as it is constructed.                         *)

\* where trees compiled without a model
PlainCalls ==
    {Call(w, DefaultOptions, DefaultEnv) : w \in TopTrees(MaxDepth) \cup Methods \cup WhereCalls}
    \cup {Call(OpOne(OpNot, w), DefaultOptions, DefaultEnv) : w \in WhereCalls}
    \cup {Call(One("x", v), DefaultOptions, DefaultEnv) : v \in AttributeValues}
    \cup {Call(w, Options(NoModel, b, TRUE), DefaultEnv) : w \in Methods, b \in BOOLEAN}

\* where trees compiled for the model User
ModelCalls ==
    {Call(One(a, v), Options("User", FALSE, FALSE), DefaultEnv) :
         a \in ModelAttributes, v \in AttributeValues}
    \cup {Call(One(a, v), Options(m, FALSE, FALSE), DefaultEnv) :
              a \in SyntaxAttributes, v \in SyntaxValues, m \in {NoModel, "User"}}
    \cup {Call(One(a, v), Options("User", b, FALSE), NoValidationEnv) :
              a \in ModelAttributes, v \in Operands, b \in BOOLEAN}

\* where trees compiled with a bindParam callback
BindCalls ==
    {Call(w, Options("User", TRUE, FALSE), DefaultEnv) :
         w \in {One("id", v) : v \in AttributeValues} \cup WhereCalls \cup TopTrees(1)}

EscapeCalls ==
    {[value |-> v, options |-> [Options(NoModel, b, FALSE) EXCEPT !.type = t], env |-> e] :
         v \in Operands, b \in BOOLEAN, t \in Types, e \in {DefaultEnv, NoValidationEnv}}

EscapeListCalls ==
    {[values |-> l.items, options |-> [Options(NoModel, b, FALSE) EXCEPT !.type = t], env |-> DefaultEnv] :
         l \in Lists, b \in BOOLEAN, t \in Types}

Next ==
    \/ \E c \in PlainCalls : ncalls = 0 /\ WhereItemsQuery(c.where, c.options, c.env)
    \/ \E c \in ModelCalls : ncalls = 0 /\ WhereItemsQuery(c.where, c.options, c.env)
    \/ \E c \in BindCalls : ncalls = 0 /\ WhereItemsQuery(c.where, c.options, c.env)
    \/ \E c \in EscapeCalls : ncalls = 0 /\ Escape(c.value, c.options, c.env)
    \/ \E c \in EscapeListCalls : ncalls = 0 /\ EscapeList(c.values, c.options, c.env)

Spec == Init /\ [][Next]_vars

-----------------------------------------------------------------------------
(* A session: calls one after the other on the same generator, each        *)
(* finding the pool as the calls before it left it.                        *)

\* where() filters nested in one another n deep, the innermost around v:
\* the compilation holds n + 1 pooled objects at once
RECURSIVE Nested(_, _)
Nested(n, v) == IF n = 0 THEN One("x", v) ELSE One("x", WhereOpts(Nested(n - 1, v)))

NestingDepths == 1..MaxNesting

SessionWheres ==
    {One("x", Num(1)), Two("x", Num(1), "id", NumList(2)), One("x", Undefined), Str(<<"raw">>),
     One("data", Under(2, Num(1))), OpOne(OpNot, Arr(<<One("x", Null), Num(1)>>)),
     WherePojo(IsNullWhere, OpOne(OpIn, NumList(2)))}
    \cup {Nested(n, v) : n \in NestingDepths, v \in {Num(1), Undefined}}

SessionCalls ==
    {Call(w, DefaultOptions, DefaultEnv) : w \in SessionWheres}
    \cup {Call(w, Options("User", TRUE, FALSE), DefaultEnv) :
              w \in {Two("x", Num(1), "id", NumList(2)), Nested(1, Num(1))}}

SessionNext ==
    \E c \in SessionCalls : ncalls < MaxCalls /\ WhereItemsQuery(c.where, c.options, c.env)

Session == Init /\ [][SessionNext]_vars

-----------------------------------------------------------------------------
(* A compile followed step by step through the frames that hold a pooled   *)
(* object: where() filters nested in one another make the compile          *)
(* re-entrant, and each attribute key met on the way takes an object from  *)
(* the pool until its frame returns or throws.                             *)

\* try { pojoWhereObject = pool.getObject(); pojoWhereObject.leftOperand = ...;
\* pojoWhereObject.whereValue = ...: the mapping reaches an attribute key, at
\* the top of a call or while the innermost frame compiles a where() operand
EnterAttribute ==
    LET got == getObject(Entry(pool, objects, DefaultEnv))
        whereValue == Num(Len(frames) + 1)
        st == AssignPojoWhere(got.st, got.obj, Attribute("x"), whereValue)
    IN  /\ Len(frames) < MaxFrames
        /\ frames = <<>> => ncalls < MaxCalls
        /\ frames # <<>> => frames[Len(frames)].read
        /\ pool.lastOccupiedIndex < 0 => Len(objects) < InitialPoolSize + MaxCreated
        /\ pool' = [freeItems |-> st.freeItems, lastOccupiedIndex |-> st.lastOccupiedIndex]
        /\ objects' = st.objects
        /\ frames' = Append(frames, [obj |-> got.obj, leftOperand |-> Attribute("x"),
                                     whereValue |-> whereValue, read |-> FALSE,
                                     seen |-> NewPojoWhere])
        /\ ncalls' = IF frames = <<>> THEN ncalls + 1 ELSE ncalls
        /\ UNCHANGED <<call, result, log, binds>>

\* formatPojoWhere reads pojoWhere.leftOperand and pojoWhere.whereValue
ReadPojoWhere ==
    /\ frames # <<>>
    /\ ~frames[Len(frames)].read
    /\ frames' = [frames EXCEPT ![Len(frames)].read = TRUE,
                                ![Len(frames)].seen = objects[frames[Len(frames)].obj]]
    /\ UNCHANGED <<pool, objects, call, result, log, binds, ncalls>>

\* return handlePart(pojoWhereObject); finally { pool.free(pojoWhereObject) }
ReturnAttribute ==
    LET st == free(Entry(pool, objects, DefaultEnv), frames[Len(frames)].obj)
    IN  /\ frames # <<>>
        /\ frames[Len(frames)].read
        /\ pool' = [freeItems |-> st.freeItems, lastOccupiedIndex |-> st.lastOccupiedIndex]
        /\ frames' = SubSeq(frames, 1, Len(frames) - 1)
        /\ result' = IF Len(frames) = 1 THEN [sql |-> <<>>, err |-> <<>>] ELSE result
        /\ UNCHANGED <<objects, call, log, binds, ncalls>>

\* an error on its way up to the caller: the finally block of every frame it
\* passes frees the frame's object, innermost first
RECURSIVE Unwound(_, _)
Unwound(st, active) ==
    IF active = <<>> THEN st
    ELSE Unwound(free(st, active[Len(active)].obj), SubSeq(active, 1, Len(active) - 1))

\* handlePart(pojoWhereObject) throws in the innermost frame
ThrowAttribute ==
    LET st == Unwound(Entry(pool, objects, DefaultEnv), frames)
    IN  /\ frames # <<>>
        /\ frames[Len(frames)].read
        /\ pool' = [freeItems |-> st.freeItems, lastOccupiedIndex |-> st.lastOccupiedIndex]
        /\ frames' = <<>>
        /\ result' = [sql |-> <<>>, err |-> <<Error("TypeError", "Invalid value received for the where option")>>]
        /\ UNCHANGED <<objects, call, log, binds, ncalls>>

NestingNext == EnterAttribute \/ ReadPojoWhere \/ ReturnAttribute \/ ThrowAttribute

Nesting == Init /\ [][NestingNext]_vars

-----------------------------------------------------------------------------
(* What a call has done, read from its history.                            *)

\* the events of one kind in the history of the call
Events(kind) == {i \in DOMAIN log : log[i].ev = kind}

WhereCall == call.op = "whereItemsQuery"
Succeeded == ncalls > 0 /\ result.err = <<>>
Threw == ncalls > 0 /\ result.err # <<>>

\* the nesting depth of parentheses after the first i lexemes of a text
RECURSIVE ParenDepth(_, _)
ParenDepth(sql, i) ==
    IF i = 0 THEN 0
    ELSE ParenDepth(sql, i - 1)
         + (IF sql[i] = "(" THEN 1 ELSE IF sql[i] = ")" THEN -1 ELSE 0)

\* the parenthesis opened by the first character is the one the last closes
FullyParenthesized(sql) ==
    /\ Len(sql) >= 2
    /\ sql[1] = "("
    /\ sql[Len(sql)] = ")"
    /\ \A i \in 1..(Len(sql) - 1) : ParenDepth(sql, i) > 0

NotText(sql) == <<"NOT", " ">> \o sql

-----------------------------------------------------------------------------
(* C1: every non-empty fragment s compiled under Op.not, in either pass,   *)
(* comes out negated as a whole: NOT (s), or NOT s only when s is fully    *)
(* parenthesized; an empty s gives an empty output.                        *)
C1_NotNegatesWholeFragment ==
    \A i \in Events("not") :
        LET s == log[i].arg
            out == log[i].sql
        IN  IF s = <<>> THEN out = <<>>
            ELSE \/ out = NotText(Paren(s))
                 \/ out = NotText(s) /\ FullyParenthesized(s)

-----------------------------------------------------------------------------
(* C2: formatWhereOptions throws and returns no SQL whenever the top-level *)
(* pass meets a value outside its grammar: a string, number, boolean, null *)
(* or other non-plain object that is not a sequelize SQL method, as the    *)
(* whole filter, as a list element or as the value of Op.and / Op.or /     *)
(* Op.not at any depth above an attribute name; or a mapping key that is a *)
(* symbol other than Op.and, Op.or, Op.not. A plain string is never        *)
(* emitted as raw SQL.                                                     *)

OutsideGrammar(v) == v.k \in {"string", "number", "boolean", "null", "instance"}

\* the where value holds, above its attribute names, a value or a key
\* outside the grammar of the top-level pass
RECURSIVE MeetsOutsideGrammar(_)
MeetsOutsideGrammar(v) ==
    IF IsArray(v) THEN \E i \in 1..Len(v.items) : MeetsOutsideGrammar(v.items[i])
    ELSE IF isPlainObject(v)
    THEN \E i \in 1..Len(v.ops) :
            \/ v.ops[i].key \notin {OpAnd, OpOr, OpNot}
            \/ MeetsOutsideGrammar(v.ops[i].val)
    ELSE OutsideGrammar(v)

C2_OutsideGrammarThrows ==
    (WhereCall /\ ncalls > 0 /\ MeetsOutsideGrammar(call.where))
        => (result.err # <<>> /\ result.sql = <<>>)

\* a string two levels down, under Op.not and in a list, made the call throw
C2_Witness ==
    /\ WhereCall /\ Threw
    /\ isPlainObject(call.where) /\ HasOp(call.where, OpNot)
    /\ isPlainObject(GetOp(call.where, OpNot)) /\ HasOp(GetOp(call.where, OpNot), OpOr)
    /\ IsArray(GetOp(GetOp(call.where, OpNot), OpOr))
    /\ GetOp(GetOp(call.where, OpNot), OpOr).items[1].k = "string"

-----------------------------------------------------------------------------
(* C3: leaf operator resolution. With no operator given, an array          *)
(* right-hand value under a left type that is not ARRAY (an unknown type   *)
(* included) resolves to IN, a null right-hand value to IS, any other      *)
(* value to =; and for every leaf whose right-hand value is null, = (given *)
(* or inferred) becomes IS and a given != becomes IS NOT. So {a: null}     *)
(* gives a IS NULL, {a: {[Op.ne]: null}} gives a IS NOT NULL, and an array *)
(* under an ARRAY-typed attribute is compared with =.                      *)
C3_LeafOperatorResolution ==
    /\ \A i \in Events("leaf") :
         LET e == log[i]
         IN  /\ e.given = NoOperator =>
                  e.operator = (IF IsArray(e.right) /\ e.leftDataType.t # "ARRAY" THEN OpIn
                                ELSE IF e.right.k = "null" THEN OpIs
                                ELSE OpEq)
             /\ (e.right.k = "null" /\ e.given = OpEq) => e.operator = OpIs
             /\ (e.right.k = "null" /\ e.given = OpNe) => e.operator = OpIsNot
    /\ (WhereCall /\ ncalls > 0 /\ ~call.options.bindParam) =>
         /\ call.where = One("x", Null) => result.sql = <<"[x]", " ", "IS", " ", "NULL">>
         /\ call.where = One("x", OpOne(OpNe, Null))
                => result.sql = <<"[x]", " ", "IS", " ", "NOT", " ", "NULL">>
         /\ (call.where = One("tags", NumList(2)) /\ call.options.model = "User")
                => result.sql = <<"[tags]", " ", "=", " ", "ARRAY[", "1", ",", "2", "]">>

\* an array under the ARRAY-typed attribute was compared with =
C3_Witness ==
    /\ WhereCall /\ Succeeded
    /\ \E i \in Events("leaf") :
          /\ log[i].given = NoOperator /\ IsArray(log[i].right)
          /\ log[i].leftDataType.t = "ARRAY" /\ log[i].operator = OpEq

-----------------------------------------------------------------------------
(* C4: for any left operand, Op.in with an empty array renders             *)
(* <left> IN (NULL), Op.notIn with an empty array renders the empty        *)
(* string, and either operator with a non-empty array renders              *)
(* <left> IN (e1, ..., en) / <left> NOT IN (e1, ..., en) with every        *)
(* element escaped; a right-hand value that is neither an array nor a      *)
(* literal raises an error.                                                *)

\* (e1, ..., en): the elements of a list as escape renders them one by one,
\* placeholders of consecutive bound values or inline literals
IsEscapedList(sql, items, options) ==
    IF options.bindParam
    THEN \E b \in 0..Len(binds) :
            /\ b + Len(items) <= Len(binds)
            /\ \A j \in 1..Len(items) : binds[b + j] = items[j]
            /\ sql = Paren(JoinTexts([j \in 1..Len(items) |-> <<"$" \o ToString(b + j)>>],
                                     <<",", " ">>))
    ELSE sql = Paren(JoinTexts(
                   [j \in 1..Len(items) |->
                       escape(Entry(InitialPool, InitialObjects, call.env), items[j], options).sql],
                   <<",", " ">>))

C4_InAndNotIn ==
    /\ \A i \in Events("render") :
         LET e == log[i]
             word == IF e.operator = OpIn THEN <<"IN">> ELSE <<"NOT", " ", "IN">>
             n == Len(e.right.items)
         IN  (e.handler = "in" /\ IsArray(e.right)) =>
                /\ e.operator \in {OpIn, OpNotIn}
                /\ (n = 0 /\ e.operator = OpIn)
                      => e.sql = e.leftSql \o <<" ", "IN", " ", "(", "NULL", ")">>
                /\ (n = 0 /\ e.operator = OpNotIn) => e.sql = <<>>
                /\ n > 0 =>
                      /\ e.sql = e.leftSql \o <<" ">> \o word \o <<" ">> \o e.rightSql
                      /\ IsEscapedList(e.rightSql, e.right.items, e.rightOptions)
    /\ \A i \in Events("leaf") :
         (log[i].operator \in {OpIn, OpNotIn} /\ ~IsArray(log[i].right) /\ log[i].right.k # "Literal")
            => Threw
    /\ (WhereCall /\ ncalls > 0 /\ call.options = DefaultOptions) =>
         /\ call.where = One("x", OpOne(OpIn, NumList(0)))
                => result.sql = <<"[x]", " ", "IN", " ", "(", "NULL", ")">>
         /\ call.where = One("x", OpOne(OpNotIn, NumList(0))) => result.sql = <<>>
         /\ call.where = One("x", NumList(3))
                => result.sql = <<"[x]", " ", "IN", " ", "(", "1", ",", " ", "2", ",", " ", "3", ")">>
         /\ call.where = WherePojo(Cast(Attribute("id"), TextType), OpOne(OpNotIn, NumList(2)))
                => result.sql = <<"CAST", "(", "[id]", " ", "AS", " ", "TEXT", ")", " ", "NOT", " ",
                                  "IN", " ", "(", "1", ",", " ", "2", ")">>

\* Op.notIn rendered a list of bound values under a left operand that is not
\* an attribute
C4_Witness ==
    /\ WhereCall /\ Succeeded
    /\ \E i \in Events("render") :
          /\ log[i].handler = "in" /\ log[i].operator = OpNotIn
          /\ IsArray(log[i].right) /\ Len(log[i].right.items) = 2
          /\ log[i].left.k = "Fn" /\ log[i].rightOptions.bindParam
          /\ Len(binds) = 2

-----------------------------------------------------------------------------
(* C5: the joining rule, in both passes. Empty fragments are removed; zero *)
(* remaining fragments give the empty string; one remaining fragment is    *)
(* returned unchanged; several are joined in input order with AND or OR,   *)
(* after wrapping in parentheses every fragment that itself contains an    *)
(* AND/OR token, so that no fragment's own AND/OR is regrouped with a      *)
(* neighbouring fragment in the joined expression.                         *)

\* the positions of the words AND / OR of a text, in any letter case
AndOrTokens(sql) == {p \in 1..Len(sql) : sql[p] \in AndOrWords}

\* the positions of the AND / OR words of a text outside every parenthesis
OpenAndOrTokens(sql) == {p \in AndOrTokens(sql) : ParenDepth(sql, p) = 0}

C5_JoiningRule ==
    \A i \in Events("join") :
        LET e == log[i]
            kept == SelectSeq(e.parts, LAMBDA part : part # <<>>)
            separator == IF e.operator = OpAnd THEN <<" ", "AND", " ">> ELSE <<" ", "OR", " ">>
            wrapped == [j \in 1..Len(kept) |->
                           IF AndOrTokens(kept[j]) # {} THEN Paren(kept[j]) ELSE kept[j]]
        IN  /\ e.pass \in {"top", "attribute"}
            /\ Len(kept) = 0 => e.sql = <<>>
            /\ Len(kept) = 1 => e.sql = kept[1]
            /\ Len(kept) > 1 =>
                  /\ e.sql = JoinTexts(wrapped, separator)
                  \* the only AND / OR left open are the separators of this join
                  /\ Cardinality(OpenAndOrTokens(e.sql)) = Len(kept) - 1

-----------------------------------------------------------------------------
(* C6, as stated: in every leaf comparison produced by the attribute pass, *)
(* the left operand is never a JsonPath whose base is itself a JsonPath:   *)
(* descending through string keys k1..kn under a left operand yields one   *)
(* JsonPath whose path is the operand's existing path (if it already was a *)
(* JsonPath) followed by k1..kn in descent order, and with no descent the  *)
(* left operand is passed on unchanged.                                    *)

IsNestedJsonPath(operand) == operand.k = "JsonPath" /\ operand.value.k = "JsonPath"

\* the left operand of a leaf is its operand, extended by the keys descended
PathExtended(e) ==
    IF Len(e.parentJsonPath) = 0 THEN e.left = e.leftOperand
    ELSE IF e.leftOperand.k = "JsonPath"
    THEN e.left = JsonPath(e.leftOperand.value, e.leftOperand.path \o e.parentJsonPath)
    ELSE e.left = JsonPath(e.leftOperand, e.parentJsonPath)

\* the keys descended are the keys of the where value, outermost first
DescentOrder ==
    \A n \in 1..MaxPath :
        (WhereCall /\ ncalls > 0 /\ \E a \in {"x", "data", "data.k"} : call.where = One(a, Under(n, Num(1))))
            => \A i \in Events("part") : log[i].parentJsonPath = PathKeys(n)

C6_LeftNeverNestedJsonPath ==
    /\ \A i \in Events("leaf") : ~IsNestedJsonPath(log[i].left)
    /\ \A i \in Events("part") : PathExtended(log[i])
    /\ DescentOrder

(* C6, amended: the attribute pass nests no JsonPath. The left operand of  *)
(* a leaf comparison is a JsonPath whose base is itself a JsonPath only    *)
(* when the operand the caller gave already was one; descending through    *)
(* string keys k1..kn yields one JsonPath over the operand's base, whose   *)
(* path is the operand's existing path followed by k1..kn in descent       *)
(* order, and with no descent the left operand is passed on unchanged.     *)
C6_PassNestsNoJsonPath ==
    /\ \A i \in Events("part") :
          /\ PathExtended(log[i])
          /\ IsNestedJsonPath(log[i].left) => IsNestedJsonPath(log[i].leftOperand)
    /\ \A i \in Events("leaf") :
          \E j \in Events("part") : j = i - 1 /\ log[j].left = log[i].left
    /\ DescentOrder

\* keys were descended under an operand that already was a JsonPath, and the
\* comparison was rendered over the one merged path
C6_Witness ==
    /\ WhereCall /\ Succeeded
    /\ \E i \in Events("part") :
          /\ log[i].leftOperand = JsonPath(Attribute("data"), <<"k">>)
          /\ log[i].parentJsonPath = PathKeys(MaxPath)
          /\ log[i].left = JsonPath(Attribute("data"), <<"k">> \o PathKeys(MaxPath))
          /\ \E j \in Events("render") : j > i /\ log[j].left = log[i].left

-----------------------------------------------------------------------------
(* C7: determinism across calls. Compiling the same where node with the    *)
(* same options gives the same outcome (the same string, or a failure of   *)
(* the same kind) whatever compile calls ran before it, successful or      *)
(* failing, shallow or nested, and whatever state they left the shared     *)
(* PojoWhere pool in.                                                      *)

\* the outcome of the call when it is the first on a generator
FirstCall == formatWhereOptions(Entry(InitialPool, InitialObjects, call.env), call.where, call.options)

C7_SameOutcomeWhateverRanBefore ==
    (WhereCall /\ ncalls > 0) =>
        /\ result.sql = FirstCall.sql
        /\ result.err = FirstCall.err
        /\ binds = FirstCall.st.binds

\* a nested call succeeded after a failing call, on pooled objects that
\* still hold what the calls before it assigned
C7_Witness ==
    /\ WhereCall /\ Succeeded /\ ncalls > 1
    /\ call.found.failed
    /\ call.where = Nested(MaxNesting, Num(1))
    /\ \E i \in Events("get") :
          /\ log[i].obj \in DOMAIN call.found.objects
          /\ call.found.objects[log[i].obj] # NewPojoWhere
          /\ call.found.objects[log[i].obj].whereValue # objects[log[i].obj].whereValue

-----------------------------------------------------------------------------
(* C8: no partial recovery. If compiling any sub-node of a where tree      *)
(* raises an error, formatWhereOptions raises an error to its caller and   *)
(* returns no string; a failing sub-node is never dropped, skipped or      *)
(* replaced by an empty fragment. An error raised inside the tree reaches  *)
(* the caller as a TypeError whose message shows the whole where value and *)
(* whose cause is the error that was raised: the error formatWhereOptions  *)
(* caught, which for a nested where() is the TypeError of the inner        *)
(* formatWhereOptions, itself caused by the error raised first.            *)

\* the errors thrown during the call, in the order they were thrown
Thrown == SelectSeq(log, LAMBDA e : e.ev = "throw")

-----------------------------------------------------------------------------
(* C9: escape(value, options).                                             *)

EscapeCall == call.op = "escape" /\ ncalls > 0

\* the call ended as formatSequelizeMethod(method, options) ends
DelegatedTo(method) ==
    LET d == formatSequelizeMethod(Entry(call.found.pool, call.found.objects, call.env),
                                   method, call.options)
    IN  result.sql = d.sql /\ result.err = d.err /\ binds = d.st.binds

\* the call rendered the value: a placeholder for the value bound when a
\* bindParam callback is given, else the text
RenderedAs(value, text) ==
    /\ result.err = <<>>
    /\ IF call.options.bindParam
       THEN result.sql = <<"$1">> /\ binds = <<value>>
       ELSE result.sql = text /\ binds = <<>>

RaisedError(name) == result.sql = <<>> /\ Len(result.err) = 1 /\ result.err[1].name = name

\* the type a value is rendered with: options.type, or the best guess from
\* the value when options.type is absent or a string
ResolvedType(value) ==
    IF call.options.type = NoType \/ call.options.type.t = "string"
    THEN bestGuessDataTypeOfVal(value) ELSE call.options.type

\* escape on a value that is neither a sequelize SQL method, undefined nor
\* null; validated says whether the value is checked against its type
EscapesOther(value, validated) ==
    LET type == ResolvedType(value)
    IN  CASE type = NoType -> RaisedError("TypeError")
          [] validated /\ ~validateDataType(value, type) -> RaisedError("ValidationError")
          [] OTHER -> RenderedAs(value, TypeEscape(type, value))

(* C9 as stated: a sequelize SQL method value is delegated to              *)
(* formatSequelizeMethod; otherwise undefined always raises a TypeError;   *)
(* otherwise null renders bindParam(null) when a bindParam callback is     *)
(* given and NULL when it is not, without resolving or validating a type;  *)
(* every other value is validated against its resolved type and then       *)
(* rendered as a bind placeholder when bindParam is given, else as an      *)
(* inline literal.                                                         *)
C9_EscapeAsStated ==
    EscapeCall =>
        CASE IsSequelizeMethod(call.value) -> DelegatedTo(call.value)
          [] call.value.k = "undefined" -> RaisedError("TypeError")
          [] call.value.k = "null" -> RenderedAs(Null, <<"NULL">>)
          [] OTHER -> EscapesOther(call.value, TRUE)

\* the plain object { [Op.col]: name }
IsOpColObject(value) == isPlainObject(value) /\ HasOp(value, OpCol)

(* C9, amended: a plain object with the key Op.col stands for the column   *)
(* it names and is delegated to formatSequelizeMethod as that column, as   *)
(* is every sequelize SQL method value; otherwise undefined always raises  *)
(* a TypeError; otherwise null renders bindParam(null) or NULL without     *)
(* resolving or validating a type; every other value has its type          *)
(* resolved, the call raising a TypeError when none can be guessed, is     *)
(* validated against it unless the noTypeValidation option is set, and is  *)
(* rendered as a bind placeholder when bindParam is given, else as an      *)
(* inline literal.                                                         *)
C9_Escape ==
    EscapeCall =>
        CASE IsOpColObject(call.value) -> DelegatedTo(Col(<<GetOp(call.value, OpCol).text[1]>>))
          [] IsSequelizeMethod(call.value) -> DelegatedTo(call.value)
          [] call.value.k = "undefined" -> RaisedError("TypeError")
          [] call.value.k = "null" -> RenderedAs(Null, <<"NULL">>)
          [] OTHER -> EscapesOther(call.value, ~call.env.noTypeValidation)

\* { [Op.col]: 'name' } was escaped with a bindParam callback and came out
\* as the column, nothing bound
C9_Witness ==
    /\ EscapeCall
    /\ IsOpColObject(call.value)
    /\ call.options.bindParam
    /\ result.err = <<>>
    /\ result.sql = quoteIdentifier("name")
    /\ binds = <<>>

-----------------------------------------------------------------------------
(* C10: in every leaf comparison the compiler emits, whichever operator    *)
(* handler renders it, a left or right operand that is a where() boolean   *)
(* sub-expression and whose rendered SQL contains a space appears wrapped  *)
(* in parentheses; any other operand is emitted unchanged.                 *)

\* an operand as the claim has it emitted, given the SQL escape renders it as
EmittedOperand(operand, sql) ==
    IF operand.k = "Where" /\ IncludesSpace(sql) THEN Paren(sql) ELSE sql

C10_WhereOperandsParenthesized ==
    \A i \in Events("render") :
        log[i].sql # <<>> =>
            log[i].sql = EmittedOperand(log[i].left, log[i].leftSql)
                         \o <<" ">> \o operatorMap(log[i].operator) \o <<" ">>
                         \o EmittedOperand(log[i].right, log[i].rightSql)

-----------------------------------------------------------------------------
(* C11: the substring operators.                                           *)

SubstringOperators ==
    {OpStartsWith, OpNotStartsWith, OpEndsWith, OpNotEndsWith, OpSubstring, OpNotSubstring}

\* the % marker before the operand (all but startsWith) and after it (all
\* but endsWith)
MarkerBefore(operator) == operator \notin {OpStartsWith, OpNotStartsWith}
MarkerAfter(operator) == operator \notin {OpEndsWith, OpNotEndsWith}

\* the pattern the claim has rendered for a right-hand operand: the string
\* with its markers, escaped as one string, or CONCAT(...) around the
\* operand as escape renders it and the escaped '%'
LikePattern(operator, right) ==
    LET st == Entry(InitialPool, InitialObjects, call.env)
        before == MarkerBefore(operator)
        after == MarkerAfter(operator)
    IN  IF right.k = "string"
        THEN escape(st, Str((IF before THEN <<"%">> ELSE <<>>) \o right.text
                            \o (IF after THEN <<"%">> ELSE <<>>)), call.options).sql
        ELSE <<"CONCAT", "(">>
             \o (IF before THEN <<"'%'", ",", " ">> ELSE <<>>)
             \o escape(st, right, call.options).sql
             \o (IF after THEN <<",", " ", "'%'">> ELSE <<>>)
             \o <<")">>

LikeWord(operator) ==
    IF operator \in {OpNotStartsWith, OpNotEndsWith, OpNotSubstring}
    THEN <<"NOT", " ", "LIKE">> ELSE <<"LIKE">>

\* the right-hand operands the claim names
SubstringOperands ==
    {Str(<<"x">>), Col(<<"t", "name">>), Fn("lower", <<Col(<<"name">>)>>), RawLiteral(<<"raw">>)}

(* C11: for each of Op.startsWith, Op.endsWith, Op.substring and their     *)
(* negated forms, and for a string, column, function call or literal as    *)
(* the right-hand operand, the compilation of { x: { [op]: operand } }     *)
(* returns [x] LIKE <pattern> (NOT LIKE for the negated forms): the string *)
(* with its % markers escaped as one string, or CONCAT(...) around the     *)
(* rendered operand and the escaped '%'.                                   *)
C11_SubstringOperators ==
    (WhereCall /\ ncalls > 0 /\ call.options = DefaultOptions /\ call.env = DefaultEnv) =>
        \A operator \in SubstringOperators, right \in SubstringOperands :
            call.where = One("x", OpOne(operator, right)) =>
                /\ result.err = <<>>
                /\ result.sql = <<"[x]", " ">> \o LikeWord(operator) \o <<" ">>
                                \o LikePattern(operator, right)

\* the same for a string operand only
C11_StringOperand ==
    (WhereCall /\ ncalls > 0 /\ call.options = DefaultOptions /\ call.env = DefaultEnv) =>
        \A operator \in SubstringOperators :
            call.where = One("x", OpOne(operator, Str(<<"x">>))) =>
                /\ result.err = <<>>
                /\ result.sql = <<"[x]", " ">> \o LikeWord(operator) \o <<" ">>
                                \o LikePattern(operator, Str(<<"x">>))

-----------------------------------------------------------------------------
(* C12: IS and IS NOT.                                                     *)

IsOperators == {OpIs, OpIsNot}
\* the right-hand values [Op.is] accepts: null, true, false, a literal
AcceptedByIs(right) == right.k \in {"null", "boolean", "Literal"}

IsErrorMessage == "Operators Op.is and Op.isNot can only be used with null, true, false or a literal."

(* C12: every leaf resolved to IS / IS NOT, whether the operator was       *)
(* written, inferred from a null value or obtained by the null rewrite of  *)
(* = / !=, makes the call throw the IS error at once unless its right-hand *)
(* value is null, true, false or a literal; and every IS / IS NOT          *)
(* comparison rendered has an accepted right-hand value and the text       *)
(* <left> IS <right> or <left> IS NOT <right>.                             *)
C12_IsAndIsNot ==
    /\ \A i \in Events("leaf") :
         (log[i].operator \in IsOperators /\ ~AcceptedByIs(log[i].right)) =>
            /\ Threw
            /\ log[i + 1].ev = "throw" /\ log[i + 1].error.msg = IsErrorMessage
            /\ \A j \in Events("render") : j < i
            /\ result.err[1].cause = <<log[i + 1].error>>
    /\ \A i \in Events("render") :
         log[i].operator \in IsOperators =>
            /\ AcceptedByIs(log[i].right)
            /\ log[i].sql = wrapAmbiguousWhere(log[i].left, log[i].leftSql)
                            \o (IF log[i].operator = OpIs THEN <<" ", "IS", " ">>
                                ELSE <<" ", "IS", " ", "NOT", " ">>)
                            \o wrapAmbiguousWhere(log[i].right, log[i].rightSql)
    /\ (WhereCall /\ ncalls > 0 /\ call.options = DefaultOptions) =>
         /\ call.where = One("x", OpOne(OpIs, Bool(TRUE)))
                => result.sql = <<"[x]", " ", "IS", " ", "true">>
         /\ call.where = One("x", OpOne(OpIsNot, RawLiteral(<<"raw">>)))
                => result.sql = <<"[x]", " ", "IS", " ", "NOT", " ", "raw">>
         /\ call.where = One("x", OpOne(OpEq, Null))
                => result.sql = <<"[x]", " ", "IS", " ", "NULL">>

\* { x: { [Op.ne]: null, [Op.is]: 1 } }: the null rewrite rendered
\* [x] IS NOT NULL, then the written Op.is met the number and threw
C12_Witness ==
    /\ WhereCall /\ Threw
    /\ \E i \in Events("render"), j \in Events("leaf") :
          /\ i < j
          /\ log[i].operator = OpIsNot /\ log[i].right = Null
          /\ log[i].sql = <<"[x]", " ", "IS", " ", "NOT", " ", "NULL">>
          /\ log[j].given = OpIs /\ log[j].right = Num(1)
          /\ result.err[1].cause[1].msg = IsErrorMessage

-----------------------------------------------------------------------------
(* C13: BETWEEN and NOT BETWEEN.                                           *)

BetweenOperators == {OpBetween, OpNotBetween}
IsPair(right) == IsArray(right) /\ Len(right.items) = 2

\* <x> AND <y>: the two elements as escape renders them one after the other
\* with the same options, placeholders of consecutive bound values or
\* inline literals
IsEscapedBounds(sql, items, options) ==
    IF options.bindParam
    THEN \E b \in 0..Len(binds) :
            /\ b + 2 <= Len(binds)
            /\ binds[b + 1] = items[1] /\ binds[b + 2] = items[2]
            /\ sql = <<"$" \o ToString(b + 1), " ", "AND", " ", "$" \o ToString(b + 2)>>
    ELSE sql = escape(Entry(InitialPool, InitialObjects, call.env), items[1], options).sql
               \o <<" ", "AND", " ">>
               \o escape(Entry(InitialPool, InitialObjects, call.env), items[2], options).sql

\* what [Op.between] renders for a two-element array
BetweenRendering ==
    \A i \in Events("render") :
        (log[i].handler = "between" /\ IsArray(log[i].right)) =>
            /\ log[i].operator \in BetweenOperators
            /\ IsPair(log[i].right)
            /\ log[i].sql = log[i].leftSql
                            \o (IF log[i].operator = OpBetween THEN <<" ", "BETWEEN", " ">>
                                ELSE <<" ", "NOT", " ", "BETWEEN", " ">>)
                            \o log[i].rightSql
            /\ IsEscapedBounds(log[i].rightSql, log[i].right.items, log[i].rightOptions)

(* C13: every leaf resolved to Op.between / Op.notBetween makes the call   *)
(* throw unless its right-hand value is an array of exactly two elements   *)
(* or a literal; a two-element array [x, y] is rendered                    *)
(* <left> BETWEEN <x> AND <y> / <left> NOT BETWEEN <x> AND <y>, x and y    *)
(* each escaped with the same type hint.                                   *)
C13_Between ==
    /\ \A i \in Events("leaf") :
         (log[i].operator \in BetweenOperators /\ ~IsPair(log[i].right) /\ log[i].right.k # "Literal")
            => Threw
    /\ BetweenRendering

\* the same, every sequelize SQL method being accepted as right-hand value
C13_BetweenAnyMethod ==
    /\ \A i \in Events("leaf") :
         (log[i].operator \in BetweenOperators /\ ~IsPair(log[i].right)
              /\ ~IsSequelizeMethod(log[i].right))
            => Threw
    /\ BetweenRendering

-----------------------------------------------------------------------------
(* C14: operators with neither a handler nor an operator text.             *)

UnsupportedOperatorMessage == "Operator does not exist or is not supported by this dialect"

\* a symbolic key that has neither a dedicated handler nor an entry in the
\* operator table
IsUnsupported(operator) == ~HasHandler(operator) /\ operatorMap(operator) = <<>>

(* C14: in the attribute pass, a leaf whose operator has neither a         *)
(* dedicated handler nor an entry in the operator table (Op.values) makes  *)
(* the call throw the unsupported-operator TypeError at once; and every    *)
(* leaf comparison rendered carries the text of its operator, which is     *)
(* never missing.                                                          *)
C14_UnsupportedOperator ==
    /\ \A i \in Events("leaf") :
         IsUnsupported(log[i].operator) =>
            /\ Threw
            /\ log[i + 1].ev = "throw" /\ log[i + 1].name = "TypeError"
            /\ log[i + 1].error.msg = UnsupportedOperatorMessage
            /\ \A j \in Events("render") : j < i
            /\ result.err[1].cause = <<log[i + 1].error>>
    /\ \A i \in Events("render") :
         /\ operatorMap(log[i].operator) # <<>>
         /\ log[i].sql # <<>> =>
               \E p \in 1..Len(log[i].sql) :
                   /\ p + Len(operatorMap(log[i].operator)) - 1 <= Len(log[i].sql)
                   /\ SubSeq(log[i].sql, p, p + Len(operatorMap(log[i].operator)) - 1)
                          = operatorMap(log[i].operator)
    /\ (WhereCall /\ ncalls > 0) =>
         \A v \in CoreOperands : call.where = One("x", OpOne(OpValues, v)) => Threw

\* { x: { [Op.values]: [1, 2] } } threw the unsupported-operator error
C14_Witness ==
    /\ WhereCall /\ Threw
    /\ call.where = One("x", OpOne(OpValues, NumList(2)))
    /\ \E i \in Events("leaf") : log[i].given = OpValues /\ log[i].operator = OpValues
    /\ result.err[1].cause[1].name = "TypeError"
    /\ result.err[1].cause[1].msg = UnsupportedOperatorMessage

-----------------------------------------------------------------------------
(* C15: escapeList(values, options).                                       *)

EscapeListCall == call.op = "escapeList" /\ ncalls > 0

\* the j-th element escaped on its own with the options of the call
ElementAlone(j) ==
    escape(Entry(call.found.pool, call.found.objects, call.env), call.values[j], call.options)

\* the escaped form of the j-th element within the list: its inline
\* literal, or the placeholder of the j-th value bound
ElementSql(j) ==
    IF call.options.bindParam /\ ~IsSequelizeMethod(call.values[j])
    THEN <<"$" \o ToString(j)>> ELSE ElementAlone(j).sql

\* the elements that cannot be escaped
FailingElements == {j \in 1..Len(call.values) : ElementAlone(j).err # <<>>}

(* C15: escapeList(values, options) returns ( + the escaped forms of the   *)
(* elements joined by `, ` + ), in input order, each element escaped with  *)
(* the options and type hint of the call; it raises the error of the first *)
(* element that cannot be escaped, so it raises an error if any element is *)
(* undefined; and escapeList([1, 2, 3]) is exactly (1, 2, 3).              *)
C15_EscapeList ==
    EscapeListCall =>
        /\ IF FailingElements = {}
           THEN /\ result.err = <<>>
                /\ result.sql = Paren(JoinTexts([j \in 1..Len(call.values) |-> ElementSql(j)],
                                                <<",", " ">>))
                /\ call.options.bindParam => binds = call.values
           ELSE /\ result.sql = <<>>
                /\ result.err = ElementAlone(CHOOSE j \in FailingElements :
                                                 \A k \in FailingElements : j <= k).err
        /\ (\E j \in 1..Len(call.values) : call.values[j].k = "undefined") => Threw
        /\ (call.values = NumList(3).items /\ ~call.options.bindParam
                /\ call.options.type \in {NoType, IntegerType})
              => result.sql = <<"(", "1", ",", " ", "2", ",", " ", "3", ")">>

\* escapeList([1, 2, 3]) returned (1, 2, 3)
C15_Witness ==
    /\ EscapeListCall
    /\ call.values = <<Num(1), Num(2), Num(3)>>
    /\ call.options.type = NoType /\ ~call.options.bindParam
    /\ result.err = <<>>
    /\ result.sql = <<"(", "1", ",", " ", "2", ",", " ", "3", ")">>

-----------------------------------------------------------------------------
(* C16: quantified comparisons.                                            *)

\* { [Op.any]: x } or { [Op.all]: x }
IsQuantified(v) == isPlainObject(v) /\ (HasOp(v, OpAny) \/ HasOp(v, OpAll))

\* the right-hand operand of a leaf once Op.any / Op.all written as the
\* operator is folded into it (under Op.col the operand is the column)
QuantifiedRight(e) ==
    IF e.given \in {OpAny, OpAll} THEN OpOne(e.given, e.right)
    ELSE IF e.given = OpCol THEN ColOf(e.right)
    ELSE e.right

\* ANY (...) / ALL (...) around what #formatOpValues renders for x
QuantifiedText(v, type) ==
    <<IF HasOp(v, OpAny) THEN "ANY" ELSE "ALL", " ", "(">>
    \o formatOpValues(Entry(InitialPool, InitialObjects, call.env),
                      GetOp(v, IF HasOp(v, OpAny) THEN OpAny ELSE OpAll), type).sql
    \o <<")">>

\* the operators whose handlers reject or rewrite a quantified operand
\* before formatBinaryOperation sees it
KeepsNoQuantifier ==
    {OpIn, OpNotIn, OpIs, OpIsNot, OpBetween, OpNotBetween} \cup SubstringOperators

\* the comparison rendered for the leaf of the i-th event has the operator
\* text and the quantified text spliced in
RenderedQuantified(i, operator) ==
    \E j \in Events("render") :
        LET r == log[j]
        IN  /\ j > i
            /\ r.handler = "formatBinaryOperation"
            /\ r.left = log[i].left /\ r.operator = operator
            /\ r.right = QuantifiedRight(log[i])
            /\ r.rightSql = QuantifiedText(r.right, r.rightOptions.type)
            /\ r.sql = wrapAmbiguousWhere(r.left, r.leftSql) \o <<" ">> \o operatorMap(operator)
                       \o <<" ">> \o r.rightSql

(* C16 as stated: whenever the right-hand operand of a leaf is shaped      *)
(* {ANY: x} or {ALL: x}, written directly under the attribute or under an  *)
(* explicit comparison operator, the leaf is rendered as a quantified      *)
(* comparison with = as the base operator, <left> = ANY (...) or           *)
(* <left> = ALL (...), the quantified text spliced in verbatim.            *)
C16_QuantifiedWithEquals ==
    (WhereCall /\ Succeeded) =>
        \A i \in Events("leaf") :
            IsQuantified(QuantifiedRight(log[i])) => RenderedQuantified(i, OpEq)

(* C16, amended: a leaf whose right-hand operand is shaped {ANY: x} or     *)
(* {ALL: x} and whose operator is rendered by formatBinaryOperation is     *)
(* rendered as a quantified comparison <left> <op> ANY (...) or            *)
(* <left> <op> ALL (...), the quantified text spliced in verbatim: <op>    *)
(* is = when the quantifier is written directly under the attribute, and   *)
(* the comparison operator it is written under otherwise.                  *)
C16_Quantified ==
    /\ \A i \in Events("leaf") :
         IsQuantified(QuantifiedRight(log[i])) =>
            /\ log[i].given \in {OpAny, OpAll, NoOperator} => log[i].operator = OpEq
            /\ log[i].given \notin {OpAny, OpAll, NoOperator} => log[i].operator = log[i].given
            /\ (WhereCall /\ Succeeded /\ log[i].operator \notin KeepsNoQuantifier)
                  => RenderedQuantified(i, log[i].operator)
    /\ (WhereCall /\ ncalls > 0 /\ call.options = DefaultOptions) =>
         /\ call.where = One("x", OpOne(OpAny, NumList(2)))
                => result.sql = <<"[x]", " ", "=", " ", "ANY", " ", "(", "ARRAY[", "1", ",", "2", "]", ")">>
         /\ call.where = One("x", OpOne(OpGt, OpOne(OpAny, NumList(2))))
                => result.sql = <<"[x]", " ", ">", " ", "ANY", " ", "(", "ARRAY[", "1", ",", "2", "]", ")">>
         /\ call.where = One("x", OpOne(OpAll, OpOne(OpValues, NumList(2))))
                => result.sql = <<"[x]", " ", "=", " ", "ALL", " ", "(", "VALUES", " ",
                                  "(", "1", ")", ",", " ", "(", "2", ")", ")">>

\* { x: { [Op.gt]: { [Op.any]: [1, 2] } } } was rendered [x] > ANY (ARRAY[1,2])
C16_Witness ==
    /\ WhereCall /\ Succeeded
    /\ call.where = One("x", OpOne(OpGt, OpOne(OpAny, NumList(2))))
    /\ \E i \in Events("leaf") :
          /\ log[i].given = OpGt /\ IsQuantified(log[i].right)
          /\ RenderedQuantified(i, OpGt)
    /\ result.sql = <<"[x]", " ", ">", " ", "ANY", " ", "(", "ARRAY[", "1", ",", "2", "]", ")">>

-----------------------------------------------------------------------------
(* C17: the truth value of a compiled tree with omitted constraints.       *)

\* the comparisons of the trees: [x] = n and [id] = n, each true or false
AtomNames == {"[x]", "[id]"}
Assignments == [AtomNames -> BOOLEAN]

\* { attribute: { [Op.notIn]: [] } }: the constraint that is omitted
IsOmitted(v) == v = OpOne(OpNotIn, NumList(0))

\* a where tree built with AND, OR and NOT over the comparisons
\* attribute = number and the omitted constraint
RECURSIVE IsBooleanTree(_)
IsBooleanTree(w) ==
    IF IsArray(w) THEN \A i \in 1..Len(w.items) : IsBooleanTree(w.items[i])
    ELSE /\ isPlainObject(w)
         /\ \A i \in 1..Len(w.strs) :
               /\ quoteIdentifier(w.strs[i].key)[1] \in AtomNames
               /\ w.strs[i].val.k = "number" \/ IsOmitted(w.strs[i].val)
         /\ \A i \in 1..Len(w.ops) :
               /\ w.ops[i].key \in {OpAnd, OpOr, OpNot}
               /\ IsBooleanTree(w.ops[i].val)

RECURSIVE HasOmitted(_)
HasOmitted(w) ==
    IF IsArray(w) THEN \E i \in 1..Len(w.items) : HasOmitted(w.items[i])
    ELSE \/ \E i \in 1..Len(w.strs) : IsOmitted(w.strs[i].val)
         \/ \E i \in 1..Len(w.ops) : HasOmitted(w.ops[i].val)

\* the conjunction or the disjunction of truth values
Connect(values, operator) ==
    IF operator = OpOr THEN \E i \in DOMAIN values : values[i]
    ELSE \A i \in DOMAIN values : values[i]

\* the truth value of the input tree under an assignment, each omitted
\* constraint read as TRUE: the keys of an object and the elements of an
\* array are connected by the operator they stand under (AND by default)
RECURSIVE TreeTruth(_, _, _)
TreeTruth(w, operator, a) ==
    IF IsArray(w)
    THEN Connect([i \in 1..Len(w.items) |-> TreeTruth(w.items[i], OpAnd, a)], operator)
    ELSE Connect([i \in 1..Len(w.strs) |->
                     IF IsOmitted(w.strs[i].val) THEN TRUE
                     ELSE a[quoteIdentifier(w.strs[i].key)[1]]]
                 \o [i \in 1..Len(w.ops) |->
                     IF w.ops[i].key = OpNot THEN ~TreeTruth(w.ops[i].val, OpAnd, a)
                     ELSE TreeTruth(w.ops[i].val, w.ops[i].key, a)],
                 operator)

\* the positions of a word of a text outside every parenthesis
TopLevel(sql, word) == {p \in 1..Len(sql) : sql[p] = word /\ ParenDepth(sql, p) = 0}
First(positions) == CHOOSE p \in positions : \A q \in positions : p <= q

\* the truth value of a boolean SQL text under an assignment, as SQL reads
\* it: NOT binds tighter than AND, AND tighter than OR; the empty text is
\* no constraint
RECURSIVE SqlOr(_, _)
RECURSIVE SqlAnd(_, _)
RECURSIVE SqlNot(_, _)
SqlOr(sql, a) ==
    IF TopLevel(sql, "OR") = {} THEN SqlAnd(sql, a)
    ELSE \/ SqlAnd(SubSeq(sql, 1, First(TopLevel(sql, "OR")) - 2), a)
         \/ SqlOr(SubSeq(sql, First(TopLevel(sql, "OR")) + 2, Len(sql)), a)
SqlAnd(sql, a) ==
    IF TopLevel(sql, "AND") = {} THEN SqlNot(sql, a)
    ELSE /\ SqlNot(SubSeq(sql, 1, First(TopLevel(sql, "AND")) - 2), a)
         /\ SqlAnd(SubSeq(sql, First(TopLevel(sql, "AND")) + 2, Len(sql)), a)
SqlNot(sql, a) ==
    IF sql[1] = "NOT" THEN ~SqlNot(SubSeq(sql, 3, Len(sql)), a)
    ELSE IF FullyParenthesized(sql) THEN SqlOr(SubSeq(sql, 2, Len(sql) - 1), a)
    ELSE a[sql[1]]
SqlTruth(sql, a) == IF sql = <<>> THEN TRUE ELSE SqlOr(sql, a)

BooleanTreeCall ==
    WhereCall /\ ncalls > 0 /\ call.options = DefaultOptions /\ IsBooleanTree(call.where)

(* C17: for every where tree built with AND, OR and NOT whose leaves may   *)
(* include NOT IN [], the compiled SQL has, under every truth assignment   *)
(* to the other leaves, the truth value of the input tree with each        *)
(* NOT IN [] leaf read as TRUE, also when that leaf is an operand of OR or *)
(* is negated by NOT.                                                      *)
C17_OmittedMeansTrue ==
    (BooleanTreeCall /\ HasOmitted(call.where)) =>
        /\ result.err = <<>>
        /\ \A a \in Assignments : SqlTruth(result.sql, a) = TreeTruth(call.where, OpAnd, a)

\* the same for the trees in which the omitted constraints stand under AND
\* only, at any depth
RECURSIVE OmittedUnderAndOnly(_, _)
OmittedUnderAndOnly(w, operator) ==
    IF ~HasOmitted(w) THEN TRUE
    ELSE IF operator # OpAnd THEN FALSE
    ELSE IF IsArray(w) THEN \A i \in 1..Len(w.items) : OmittedUnderAndOnly(w.items[i], OpAnd)
    ELSE \A i \in 1..Len(w.ops) : OmittedUnderAndOnly(w.ops[i].val, w.ops[i].key)

C17_OmittedUnderAnd ==
    (BooleanTreeCall /\ HasOmitted(call.where) /\ OmittedUnderAndOnly(call.where, OpAnd)) =>
        /\ result.err = <<>>
        /\ \A a \in Assignments : SqlTruth(result.sql, a) = TreeTruth(call.where, OpAnd, a)

-----------------------------------------------------------------------------
(* C18: the discipline of the PojoWhere pool.                              *)

\* the objects that can be handed out: freeItems[0 .. lastOccupiedIndex]
FreeSlots == 1..(pool.lastOccupiedIndex + 1)
HeldObjects == {frames[i].obj : i \in DOMAIN frames}

(* C18: over any sequence of compiles, nested deeper than the 20 initial   *)
(* objects of the pool and throwing included: the object of every frame    *)
(* is a PojoWhere of its own, held by no other active frame; the frame     *)
(* has read from it the leftOperand and whereValue it assigned itself, and *)
(* the object still carries them as long as the frame is active; no object *)
(* held by a frame is free at the same time, no object is free twice, and  *)
(* once every frame has returned or thrown all their objects are free      *)
(* again.                                                                  *)
C18_PoolDiscipline ==
    /\ \A i \in DOMAIN frames :
         /\ frames[i].obj \in DOMAIN objects
         /\ \A j \in DOMAIN frames : i # j => frames[i].obj # frames[j].obj
         /\ frames[i].read =>
               frames[i].seen = [leftOperand |-> frames[i].leftOperand,
                                 whereValue |-> frames[i].whereValue]
         /\ objects[frames[i].obj] = [leftOperand |-> frames[i].leftOperand,
                                      whereValue |-> frames[i].whereValue]
    /\ pool.lastOccupiedIndex < Len(pool.freeItems)
    /\ \A k \in FreeSlots :
         /\ pool.freeItems[k] \in DOMAIN objects
         /\ pool.freeItems[k] \notin HeldObjects
         /\ \A l \in FreeSlots : k # l => pool.freeItems[k] # pool.freeItems[l]
    /\ pool.lastOccupiedIndex + 1 + Len(frames) >= InitialPoolSize

\* a second compile, after one that threw, is nested deeper than the pool's
\* initial objects: its innermost frame holds an object the factory made
C18_Witness ==
    /\ ncalls = 2
    /\ result.err # <<>>
    /\ Len(frames) > InitialPoolSize
    /\ frames[Len(frames)].read
    /\ frames[Len(frames)].obj > InitialPoolSize
    /\ pool.lastOccupiedIndex < 0

-----------------------------------------------------------------------------
(* C19: formatLiteral.                                                     *)

\* the concatenation, in part order, of each raw string and of each
\* embedded method's own formatted SQL
RECURSIVE PartsText(_)
PartsText(parts) ==
    IF parts = <<>> THEN <<>>
    ELSE (IF parts[1].k = "string" THEN parts[1].text
          ELSE formatSequelizeMethod(Entry(InitialPool, InitialObjects, call.env),
                                     parts[1], call.options).sql)
         \o PartsText(Tail(parts))

\* a literal was compiled as the whole where value
LiteralCall == WhereCall /\ ncalls > 0 /\ call.where.k = "Literal"

\* what the claim has formatLiteral return for the literal of the call
LiteralAsClaimed ==
    LET text == PartsText(call.where.val)
    IN  IF ~call.options.replacements THEN result.err = <<>> /\ result.sql = text
        ELSE IF \E i \in 1..Len(text) : text[i] = "?"
        THEN /\ result.sql = <<>> /\ Len(result.err) = 1
             /\ result.err[1].cause # <<>> /\ result.err[1].cause[1].name = "TypeError"
        ELSE /\ result.err = <<>>
             /\ result.sql = injectReplacements(Entry(InitialPool, InitialObjects, call.env), text).sql

(* C19: formatLiteral on a literal whose parts mix raw strings and         *)
(* embedded sequelize SQL methods returns the concatenation, in part       *)
(* order, of each raw string and of each embedded method's own formatted   *)
(* SQL; replacements are injected into that text only when replacements    *)
(* are supplied, and a positional ? in it then raises a TypeError.         *)
C19_FormatLiteral == LiteralCall => LiteralAsClaimed

\* the same for the literals made of raw strings only
C19_RawStringsOnly ==
    (LiteralCall /\ \A i \in 1..Len(call.where.val) : call.where.val[i].k = "string")
        => LiteralAsClaimed

-----------------------------------------------------------------------------
(* C20: the Type Resolver on cast and JSON-path operands.                  *)

\* the type the claim has an operand resolve to: the declared target type
\* of a cast, the type of the wrapped base of a JSON path or the JSON type
RECURSIVE ClaimedType(_, _)
ClaimedType(operand, model) ==
    CASE operand.k = "Cast" -> operand.type
      [] operand.k = "JsonPath" ->
            IF ClaimedType(operand.value, model) = NoType THEN JsonDataType
            ELSE ClaimedType(operand.value, model)
      [] operand.k = "Attribute" /\ model # NoModel -> AttributeType(model, operand.attributeName)
      [] OTHER -> NoType

IsCastOrJsonPath(operand) == operand.k \in {"Cast", "JsonPath"}

\* the types the resolver gave the operands of the leaves of the call: the
\* left operand's type as the leaf has it, the right operand's type as the
\* type hint its escaping got
ResolvedAsClaimed ==
    /\ \A i \in Events("leaf") :
         IsCastOrJsonPath(log[i].left) =>
            /\ log[i].leftDataType # NoType
            /\ log[i].leftDataType = ClaimedType(log[i].left, call.options.model)
    /\ \A i \in Events("render") :
         IsCastOrJsonPath(log[i].right) =>
            /\ log[i].rightOptions.type # NoType
            /\ log[i].rightOptions.type = ClaimedType(log[i].right, call.options.model)

(* C20: for every owning model, present or absent, a cast operand          *)
(* resolves to the cast's declared target type and a JSON-path-wrapped     *)
(* operand to the type of its wrapped base or, when that cannot be         *)
(* resolved, to the JSON type; neither resolves to unknown.                *)
C20_TypeResolver == (WhereCall /\ ncalls > 0) => ResolvedAsClaimed

\* the same with an owning model present
C20_WithModel == (WhereCall /\ ncalls > 0 /\ call.options.model # NoModel) => ResolvedAsClaimed

-----------------------------------------------------------------------------
(* C21: the Type Resolver on association-path operands.                    *)

\* the leaves of the call whose left operand is an association path
AssociationLeaves == {i \in Events("leaf") : log[i].left.k = "AssociationPath"}

\* the type the claim has an association path resolve to on a model
ClaimedAssociationType(operand, model) ==
    IF AssociationTarget(model, operand.associationPath) = NoModel THEN NoType
    ELSE AttributeType(AssociationTarget(model, operand.associationPath), operand.attribute)

(* C21: with an owning model present, an association-path operand resolves *)
(* to unknown when the association is not found on the model, and to the   *)
(* declared type of its trailing attribute on the association's target     *)
(* model when it is found (unknown only if the attribute is not declared   *)
(* there).                                                                 *)
C21_AssociationPath ==
    (WhereCall /\ ncalls > 0) =>
        \A i \in AssociationLeaves :
            log[i].model # NoModel =>
                log[i].leftDataType = ClaimedAssociationType(log[i].left, log[i].model)

\* what the resolver does: an association path resolves to unknown, found or not
C21_AlwaysUnknown ==
    (WhereCall /\ ncalls > 0) => \A i \in AssociationLeaves : log[i].leftDataType = NoType

\* an association path that is found, with a declared trailing attribute, was a leaf
C21_FoundLeaf ==
    /\ WhereCall /\ ncalls > 0
    /\ \E i \in AssociationLeaves :
         log[i].model # NoModel /\ ClaimedAssociationType(log[i].left, log[i].model) # NoType

-----------------------------------------------------------------------------
(* C22: the left type of a leaf and the leaves rendered before it.         *)

\* the left type a leaf has on its own: the resolver's answer for its left
\* operand and the model, JSON for a JSON path the resolver knows nothing of
OwnLeftType(left, model) ==
    IF getOperandType(left, model) = NoType /\ left.k = "JsonPath" THEN jsonType
    ELSE getOperandType(left, model)

\* the leaves of the call compiled with another left type than their own,
\* for the model their compile was given
ForeignTyped ==
    {i \in Events("leaf") : log[i].leftDataType # OwnLeftType(log[i].left, log[i].model)}

(* C22: the left type used to infer the operator of a leaf and to escape   *)
(* it depends only on the leaf's own left operand and the model, whatever  *)
(* sibling leaves of the same attribute were rendered before it.           *)
C22_LeftTypeOfLeafAlone == (WhereCall /\ ncalls > 0) => ForeignTyped = {}

\* what the code keeps: a leaf has another type than its own only when its
\* own type is unknown, a JSON-path leaf was compiled before it, and the
\* type it got is JSON
C22_OnlyAfterJsonPathLeaf ==
    (WhereCall /\ ncalls > 0) =>
        \A i \in ForeignTyped :
            /\ OwnLeftType(log[i].left, log[i].model) = NoType
            /\ log[i].leftDataType = jsonType
            /\ \E j \in Events("leaf") : j < i /\ log[j].left.k = "JsonPath"

\* { x: { y: 1, [Op.ne]: 2 } } compiled without a model: the leaf of Op.ne
\* comes after the JSON-path leaf of y
C22_SiblingLeaf ==
    /\ WhereCall /\ Succeeded /\ call.options.model = NoModel
    /\ call.where = One("x", Obj(<<KV("y", Num(1))>>, <<KV(OpNe, Num(2))>>))

-----------------------------------------------------------------------------
(* C23: bind parameters.                                                   *)

\* the lexemes only an inlined value of the inputs brings into the SQL: a
\* number, a boolean, the quote of a string or of JSON, the head of an array
ValueLexemes == {"1", "2", "3", "true", "false", "'", "ARRAY["}

\* a compile that was given a bindParam callback and no replacements
BindCall ==
    /\ WhereCall /\ Succeeded
    /\ call.options.bindParam /\ ~call.options.replacements

\* the comparisons of the call whose right operand is quantified
QuantifiedRenders ==
    {i \in Events("render") : log[i].handler = "formatBinaryOperation" /\ IsQuantified(log[i].right)}

\* no value is inlined in the SQL of the call
NothingInlined == \A i \in DOMAIN result.sql : result.sql[i] \notin ValueLexemes

(* C23: when a bindParam callback is supplied to a compile, every scalar   *)
(* value of the where tree is rendered through the bind-parameter path and *)
(* never inlined as a literal, the values of ANY / ALL / VALUES quantified *)
(* operands included.                                                      *)
C23_BindParameters == BindCall => NothingInlined

\* the same for the compiles that render no quantified operand
C23_OutsideQuantified == (BindCall /\ QuantifiedRenders = {}) => NothingInlined

\* values were bound by a compile that rendered an IN list
C23_BoundList ==
    /\ BindCall /\ Len(binds) >= 2 /\ NothingInlined
    /\ \E i \in Events("render") : log[i].handler = "in" /\ IsArray(log[i].right)

-----------------------------------------------------------------------------
(* C24: the attribute pass on a mapping value.                             *)

\* a compile of { attribute: mapping }
AttributeMappingCall ==
    /\ WhereCall /\ ncalls > 0
    /\ isPlainObject(call.where)
    /\ Len(call.where.strs) = 1 /\ Len(call.where.ops) = 0
    /\ isPlainObject(call.where.strs[1].val)

\* its left operand, the mapping, and the type the left operand resolves to
MappingLeft == parseAttributeSyntax(Attribute(call.where.strs[1].key))
MappingValue == call.where.strs[1].val
MappingLeftType == getOperandType(MappingLeft, call.options.model)

\* path descent is permitted: the resolved type is JSON or unknown
DescentPermitted == MappingLeftType = NoType \/ MappingLeftType.t = "JSON"

\* the leaf comparisons the pass is to emit for a value at a path: an
\* opaque mapping is one leaf, the string keys of a descended mapping
\* extend the path
RECURSIVE LeavesOf(_, _, _)
RECURSIVE LeavesUnder(_, _, _)
LeavesOf(v, descend, path) ==
    IF ~isPlainObject(v) \/ (~descend /\ Len(v.strs) > 0)
    THEN {[path |-> path, given |-> NoOperator, right |-> v]}
    ELSE UNION {LeavesOf(v.strs[i].val, descend, Append(path, v.strs[i].key)) : i \in DOMAIN v.strs}
         \cup UNION {LeavesUnder(v.ops[i], descend, path) : i \in DOMAIN v.ops}

LeavesUnder(entry, descend, path) ==
    IF entry.key = OpNot THEN LeavesOf(entry.val, descend, path)
    ELSE IF entry.key \in {OpAnd, OpOr}
    THEN IF IsArray(entry.val)
         THEN UNION {LeavesOf(entry.val.items[j], descend, path) : j \in DOMAIN entry.val.items}
         ELSE LeavesOf(entry.val, descend, path)
    ELSE {[path |-> path, given |-> entry.key, right |-> entry.val]}

\* the leaves the pass emitted for the attribute of the call
MappingLeaves ==
    {i \in Events("leaf") : i > 1 /\ log[i - 1].ev = "part" /\ log[i - 1].leftOperand = MappingLeft}
EmittedLeaf(i) ==
    [path |-> log[i - 1].parentJsonPath, given |-> log[i].given, right |-> log[i].right]

\* an opaque value among the leaves: a mapping with a string key compared whole
OpaqueLeaves ==
    {i \in MappingLeaves :
        log[i].given = NoOperator /\ isPlainObject(log[i].right) /\ Len(log[i].right.strs) > 0}

(* C24: when the left operand's resolved type is known and is not JSON, a  *)
(* mapping with at least one string key yields exactly one leaf comparison *)
(* with an unresolved operator and the whole mapping as its right operand, *)
(* even if the mapping also has operator keys; when the resolved type is   *)
(* JSON or unknown, every string key is descended as a JSON-path segment   *)
(* and never treated as an opaque value.                                   *)
C24_MappingValue ==
    AttributeMappingCall =>
        /\ (~DescentPermitted /\ Len(MappingValue.strs) > 0) =>
              /\ Cardinality(MappingLeaves) = 1
              /\ \A i \in MappingLeaves :
                    /\ log[i].given = NoOperator
                    /\ log[i].right = MappingValue
                    /\ log[i].left = MappingLeft
        /\ DescentPermitted =>
              /\ OpaqueLeaves = {}
              /\ \A i \in MappingLeaves :
                    log[i].left = wrapJsonPath(MappingLeft, log[i - 1].parentJsonPath)
        /\ {EmittedLeaf(i) : i \in MappingLeaves} \subseteq LeavesOf(MappingValue, DescentPermitted, <<>>)
        /\ Succeeded =>
              {EmittedLeaf(i) : i \in MappingLeaves} = LeavesOf(MappingValue, DescentPermitted, <<>>)

\* { id: { y: 1, [Op.ne]: 2 } } for a model that declares id an INTEGER: one
\* leaf, the mapping whole
C24_Witness ==
    /\ AttributeMappingCall
    /\ ~DescentPermitted
    /\ Len(MappingValue.strs) > 0 /\ Len(MappingValue.ops) > 0
    /\ Cardinality(MappingLeaves) = 1
    /\ \E i \in MappingLeaves : log[i].right = MappingValue /\ log[i].given = NoOperator

\* { data: { k1: { k2: 1 } } } for a model that declares data as JSON: the
\* string keys are the path of the one leaf
C24_Descended ==
    /\ AttributeMappingCall /\ Succeeded
    /\ MappingLeftType = JsonDataType
    /\ \E i \in MappingLeaves : Len(log[i - 1].parentJsonPath) = 2 /\ log[i].left.k = "JsonPath"

-----------------------------------------------------------------------------
(* C25: the connectives of the attribute pass.                             *)

RECURSIVE Concat(_)
\* the sequences of a sequence, one after the other
Concat(seqs) == IF seqs = <<>> THEN <<>> ELSE Head(seqs) \o Concat(Tail(seqs))

\* the joins the pass is to make for a value compiled under a connective,
\* innermost first: the siblings of a mapping are joined with the
\* connective it is compiled under, which a string key hands on, which
\* Op.not and the elements of a list set to AND, and which the non-list
\* value of Op.and / Op.or gets from its key; a list is joined with its key
RECURSIVE JoinsOf(_, _, _)
RECURSIVE JoinsUnder(_, _, _)
JoinsOf(v, descend, connective) ==
    IF ~isPlainObject(v) \/ (~descend /\ Len(v.strs) > 0) THEN <<>>
    ELSE Concat([i \in DOMAIN v.strs |-> JoinsOf(v.strs[i].val, descend, connective)])
         \o Concat([i \in DOMAIN v.ops |-> JoinsUnder(v.ops[i], descend, connective)])
         \o <<[operator |-> connective, n |-> Len(v.strs) + Len(v.ops)]>>

JoinsUnder(entry, descend, connective) ==
    IF entry.key = OpNot THEN JoinsOf(entry.val, descend, OpAnd)
    ELSE IF entry.key \in {OpAnd, OpOr}
    THEN IF IsArray(entry.val)
         THEN Concat([j \in DOMAIN entry.val.items |-> JoinsOf(entry.val.items[j], descend, OpAnd)])
              \o <<[operator |-> entry.key, n |-> Len(entry.val.items)]>>
         ELSE JoinsOf(entry.val, descend, entry.key)
    ELSE <<>>

RECURSIVE JoinsFrom(_)
\* the joins the attribute pass made, from the i-th event of the history on
JoinsFrom(i) ==
    IF i > Len(log) THEN <<>>
    ELSE (IF log[i].ev = "join" /\ log[i].pass = "attribute"
          THEN <<[operator |-> log[i].operator, n |-> Len(log[i].parts)]>> ELSE <<>>)
         \o JoinsFrom(i + 1)

IsPrefix(a, b) == Len(a) <= Len(b) /\ a = SubSeq(b, 1, Len(a))

\* a compile of { attribute: mapping } all of whose leaves are the attribute's
OneAttributeCall == AttributeMappingCall /\ Events("leaf") = MappingLeaves

(* C25: in the attribute pass the sibling keys of a mapping are joined     *)
(* with the connective of the Op.and / Op.or key whose non-list value the  *)
(* mapping is, and with AND otherwise; the elements of an Op.and / Op.or   *)
(* list are each compiled with AND as their own connective and then joined *)
(* with the list's connective; the value of Op.not is compiled with AND at *)
(* the same JSON path; descent through a string key keeps the enclosing    *)
(* connective and extends the path.                                        *)
C25_Connectives ==
    OneAttributeCall =>
        /\ IsPrefix(JoinsFrom(1), JoinsOf(MappingValue, DescentPermitted, OpAnd))
        /\ Succeeded =>
              /\ JoinsFrom(1) = JoinsOf(MappingValue, DescentPermitted, OpAnd)
              /\ {EmittedLeaf(i) : i \in MappingLeaves}
                     = LeavesOf(MappingValue, DescentPermitted, <<>>)

\* { x: { [Op.or]: { y: { [Op.gt]: 1, [Op.ne]: 2 }, [Op.not]: { ... },
\*   [Op.and]: [{ ... }, 1] } } }: each kind of key under an OR
C25_Witness ==
    /\ OneAttributeCall /\ Succeeded
    /\ HasOp(MappingValue, OpOr) /\ isPlainObject(GetOp(MappingValue, OpOr))
    /\ Len(GetOp(MappingValue, OpOr).strs) = 1 /\ Len(GetOp(MappingValue, OpOr).ops) = 2
    /\ JoinsFrom(1) = <<[operator |-> OpOr, n |-> 2], [operator |-> OpAnd, n |-> 2],
                        [operator |-> OpAnd, n |-> 2], [operator |-> OpAnd, n |-> 2],
                        [operator |-> OpOr, n |-> 3], [operator |-> OpAnd, n |-> 1]>>

====
